---- MODULE Spec2Model ----
(***************************************************************************)
(* A model of pyapprox/orthonormal_polynomials_1d.py: the recurrence       *)
(* coefficient providers, the recurrence based evaluators and the          *)
(* representation conversions.                                             *)
(*                                                                         *)
(* Numbers.  The code works in IEEE doubles; the model works in exact      *)
(* arithmetic.  A rational is a pair <<n, d>> in lowest terms with d > 0.  *)
(* The value left in the beta column by np.sqrt is kept as a "root"        *)
(* [nan, rad, pi4] that stands for sqrt(rad) * pi^(pi4/4), or for NaN,     *)
(* which np.sqrt returns (with a RuntimeWarning, no exception) when its    *)
(* argument is negative.  A value before the square root is a "scaled"     *)
(* [q, pi2] that stands for q * pi^(pi2/2) (Gamma(rho+1/2) is a rational   *)
(* multiple of sqrt(pi)).                                                  *)
(*                                                                         *)
(* Arrays are sequences: row i of a numpy array is element i+1.            *)
(*                                                                         *)
(* State.  fn, args and ret are the call in progress and its result.       *)
(* heap is the storage of the arrays a caller holds, one cell per array,   *)
(* an address being a position in heap.  local holds the program counter   *)
(* and the local variables of a sampling loop while it runs.               *)
(*                                                                         *)
(* The samplers of pyapprox/induced_sampling.py and christoffel_function   *)
(* are modelled from their description and from the calls and assertions   *)
(* of tests/test_induced_sampling.py.                                      *)
(***************************************************************************)
EXTENDS Integers, Sequences, FiniteSets

VARIABLES fn, args, ret, heap, local

vars == <<fn, args, ret, heap, local>>

(* ------------------------------ bounds -------------------------------- *)

\* largest number of terms requested from a provider
MaxN == 3
\* largest absolute value of an integer family parameter
MaxParam == 3
\* largest number of rows of a table handed to an evaluator
MaxRows == 4
\* largest derivative order requested
MaxDeriv == 2

(* ------------------------- rational arithmetic ------------------------ *)

Abs(n) == IF n < 0 THEN -n ELSE n

RECURSIVE GCD(_, _)
GCD(a, b) == IF b = 0 THEN a ELSE GCD(b, a % b)

Rat(n, d) ==
    LET s == IF d < 0 THEN -1 ELSE 1
        g == GCD(Abs(n), Abs(d))
    IN  <<(s * n) \div g, (s * d) \div g>>

Zero == <<0, 1>>
One == <<1, 1>>
Int2Rat(n) == <<n, 1>>

RAdd(x, y) == Rat(x[1] * y[2] + y[1] * x[2], x[2] * y[2])
RNeg(x) == <<-x[1], x[2]>>
RSub(x, y) == RAdd(x, RNeg(y))
RMul(x, y) == Rat(x[1] * y[1], x[2] * y[2])
\* y is not zero
RDiv(x, y) == Rat(x[1] * y[2], x[2] * y[1])
RAbs(x) == <<Abs(x[1]), x[2]>>
RIsZero(x) == x[1] = 0
RIsNeg(x) == x[1] < 0
RLess(x, y) == x[1] * y[2] < y[1] * x[2]

RECURSIVE Factorial(_)
Factorial(n) == IF n <= 0 THEN 1 ELSE n * Factorial(n - 1)

RECURSIVE Pow(_, _)
Pow(b, e) == IF e <= 0 THEN 1 ELSE b * Pow(b, e - 1)

(* ---------------------- values around np.sqrt -------------------------- *)

\* q * pi^(pi2/2): a value of the beta column before the square root
Scaled(q, pi2) == [q |-> q, pi2 |-> pi2]
Plain(q) == Scaled(q, 0)

NaN == [nan |-> TRUE, rad |-> Zero, pi4 |-> 0]
\* sqrt(rad) * pi^(pi4/4), rad >= 0
Root(rad, pi4) == [nan |-> FALSE, rad |-> rad, pi4 |-> pi4]
\* the float 1.0 written into ab[0,1]
RootOne == Root(One, 0)

\* np.sqrt of one entry: NaN for a negative argument, never an exception
NpSqrt(v) == IF RIsNeg(v.q) THEN NaN ELSE Root(v.q, v.pi2)

\* the non-negative scaled value v itself, written as a root: v = sqrt(v^2)
AsRoot(v) == Root(RMul(v.q, v.q), 2 * v.pi2)

\* ab[:,1] = np.sqrt(ab[:,1]) on a table whose beta column is still scaled
SqrtColumn(ab) == [i \in 1..Len(ab) |-> <<ab[i][1], NpSqrt(ab[i][2])>>]

SetBeta0_Skipped(ab) == ab

\* ab[0,1] = 1.0
SetBeta0(ab) == [i \in 1..Len(ab) |-> IF i = 1 THEN <<ab[i][1], RootOne>> ELSE ab[i]]

(* ------------------------------ results -------------------------------- *)

EmptyTable_OneRow ==
    [kind |-> "table", shape |-> <<1, 2>>, ab |-> <<<<One, RootOne>>>>]

\* np.ones((0,2))
EmptyTable == [kind |-> "table", shape |-> <<0, 2>>, ab |-> <<>>]
Table(ab) == [kind |-> "table", shape |-> <<Len(ab), 2>>, ab |-> ab]
AssertionError == [kind |-> "AssertionError"]
ZeroDivisionError == [kind |-> "ZeroDivisionError"]
IndexError == [kind |-> "IndexError"]
NoResult == [kind |-> "none"]

(* ----------------------- charlier_recurrence --------------------------- *)

\* row i of the table before the square root (lines 35-40)
CharlierRow(i, a) ==
    IF i = 0 THEN <<a, Plain(One)>>
    ELSE <<RAdd(a, Int2Rat(i)), Plain(RMul(a, Int2Rat(i)))>>

\* ab = np.zeros((N+1,2)), filled for i = 0..N
CharlierRows(N, a) == [k \in 1..(N + 1) |-> CharlierRow(k - 1, a)]

charlier_recurrence(N, a) ==
    IF N < 1 THEN EmptyTable
    ELSE Table(SqrtColumn(CharlierRows(N, a)))

(* ------------------- discrete_chebyshev_recurrence --------------------- *)

\* ab[i,1] before the square root (lines 77-79)
ChebyshevBeta(i, Ntrials) ==
    IF i = 0 THEN Int2Rat(Ntrials)
    ELSE RDiv(RMul(Rat(Ntrials * Ntrials, 4),
                   RSub(One, RMul(Rat(i, Ntrials), Rat(i, Ntrials)))),
              RSub(Int2Rat(4), Rat(1, i * i)))

\* ab[:,0] = 0.5 * Ntrials * (1. - 1./Ntrials)
ChebyshevAlpha(Ntrials) ==
    RMul(Rat(Ntrials, 2), RSub(One, Rat(1, Ntrials)))

\* ab = np.zeros((N,2)), filled for i = 0..N-1
ChebyshevRows(N, Ntrials) ==
    [k \in 1..N |->
        <<ChebyshevAlpha(Ntrials), Plain(ChebyshevBeta(k - 1, Ntrials))>>]

discrete_chebyshev_recurrence(N, Ntrials) ==
    IF ~(N <= Ntrials) THEN AssertionError
    ELSE IF N < 1 THEN EmptyTable
    ELSE Table(SetBeta0(SqrtColumn(ChebyshevRows(N, Ntrials))))

(* --------------------------- hahn_recurrence --------------------------- *)

\* the integer numerators and denominators of the loop body (lines 129-132)
HahnNumA(n, N, alphaPoly, betaPoly) ==
    (alphaPoly + n + 1) * (N - n) * (n + alphaPoly + betaPoly + 1)
HahnNumC(n, N, alphaPoly, betaPoly) ==
    n * (betaPoly + n) * (N + alphaPoly + betaPoly + n + 1)
HahnDenA(n, alphaPoly, betaPoly) ==
    (alphaPoly + betaPoly + 2 * n + 1) * (alphaPoly + betaPoly + 2 * n + 2)
HahnDenC(n, alphaPoly, betaPoly) ==
    (alphaPoly + betaPoly + 2 * n + 1) * (alphaPoly + betaPoly + 2 * n)

\* numA / denA or numC / denC on Python integers raises ZeroDivisionError
HahnDivides(Nterms, alphaPoly, betaPoly) ==
    \A n \in 0..(Nterms - 1) :
        /\ HahnDenA(n, alphaPoly, betaPoly) # 0
        /\ HahnDenC(n, alphaPoly, betaPoly) # 0

HahnAn(n, N, alphaPoly, betaPoly) ==
    Rat(HahnNumA(n, N, alphaPoly, betaPoly), HahnDenA(n, alphaPoly, betaPoly))
HahnCn(n, N, alphaPoly, betaPoly) ==
    Rat(HahnNumC(n, N, alphaPoly, betaPoly), HahnDenC(n, alphaPoly, betaPoly))

\* the list handed to np.array (lines 139-140), before the square root
HahnRows(Nterms, N, alphaPoly, betaPoly) ==
    [k \in 1..Nterms |->
        LET n == k - 1
            al == RAdd(HahnAn(n, N, alphaPoly, betaPoly),
                       HahnCn(n, N, alphaPoly, betaPoly))
        IN  IF n = 0 THEN <<al, Plain(One)>>
            ELSE <<al, Plain(RMul(HahnAn(n - 1, N, alphaPoly, betaPoly),
                                  HahnCn(n, N, alphaPoly, betaPoly)))>>]

\* if Nterms==1: return np.array([[An[0]+Cn[0],1]])
HahnSingle(N, alphaPoly, betaPoly) ==
    Table(<<<<RAdd(HahnAn(0, N, alphaPoly, betaPoly),
                   HahnCn(0, N, alphaPoly, betaPoly)), RootOne>>>>)

hahn_recurrence(Nterms, N, alphaPoly, betaPoly) ==
    IF ~(Nterms <= N) THEN AssertionError
    ELSE IF Nterms < 1 THEN EmptyTable
    ELSE IF ~HahnDivides(Nterms, alphaPoly, betaPoly) THEN ZeroDivisionError
    ELSE IF Nterms = 1 THEN HahnSingle(N, alphaPoly, betaPoly)
    ELSE Table(SetBeta0(SqrtColumn(HahnRows(Nterms, N, alphaPoly, betaPoly))))

(* ------------------------ krawtchouk_recurrence ------------------------ *)

\* [p*(Ntrials-n)+n*(1-p), p*(1-p)*n*(Ntrials-n+1)]
KrawtchoukRow(n, Ntrials, p) ==
    <<RAdd(RMul(p, Int2Rat(Ntrials - n)), RMul(Int2Rat(n), RSub(One, p))),
      Plain(RMul(RMul(p, RSub(One, p)), Int2Rat(n * (Ntrials - n + 1))))>>

KrawtchoukRows_Extra(Nterms, Ntrials, p) ==
    [k \in 1..(Nterms + 1) |-> KrawtchoukRow(k - 1, Ntrials, p)]

\* ... for n in range(Nterms)
KrawtchoukRows(Nterms, Ntrials, p) ==
    [k \in 1..Nterms |-> KrawtchoukRow(k - 1, Ntrials, p)]

krawtchouk_recurrence(Nterms, Ntrials, p) ==
    IF ~(Nterms <= Ntrials) THEN AssertionError
    ELSE IF ~(RLess(Zero, p) /\ RLess(p, One)) THEN AssertionError
    ELSE IF Nterms < 1 THEN EmptyTable
    ELSE Table(SetBeta0(SqrtColumn(KrawtchoukRows(Nterms, Ntrials, p))))

(* -------------------------- jacobi_recurrence -------------------------- *)
\* alpha and beta are integers >= 0 in the model, so that the Gamma
\* functions of row 0 are factorials.

\* np.exp((alpha+beta+1)*log(2) + gammaln(alpha+1) + gammaln(beta+1)
\*        - gammaln(alpha+beta+2))
JacobiNorm(alpha, beta) ==
    Rat(Pow(2, alpha + beta + 1) * Factorial(alpha) * Factorial(beta),
        Factorial(alpha + beta + 1))

\* ab[0,:] of the special cases (lines 224-228), before the square root
JacobiRow0(alpha, beta) ==
    <<Rat(beta - alpha, alpha + beta + 2), Plain(JacobiNorm(alpha, beta))>>

\* ab[1,:] when N > 1 (lines 230-233), before the square root
JacobiRow1(alpha, beta) ==
    <<Rat(beta * beta - alpha * alpha, (2 + alpha + beta) * (4 + alpha + beta)),
      Plain(Rat(4 * (alpha + 1) * (beta + 1),
                (alpha + beta + 2) * (alpha + beta + 2) * (alpha + beta + 3)))>>

\* ab[i,:] for i >= 2 (lines 235-238), before the square root
JacobiRowGeneral(i, alpha, beta) ==
    <<Rat(beta * beta - alpha * alpha,
          (2 * i + alpha + beta) * (2 * i + alpha + beta + 2)),
      Plain(Rat(4 * i * (i + alpha) * (i + beta) * (i + alpha + beta),
                (2 * i + alpha + beta) * (2 * i + alpha + beta)
                    * (2 * i + alpha + beta + 1) * (2 * i + alpha + beta - 1)))>>

\* a row of np.ones((N,2)) * np.array([beta**2.- alpha**2., 1.]) (line 221)
JacobiRowInitial(alpha, beta) ==
    <<Int2Rat(beta * beta - alpha * alpha), Plain(One)>>

SpecialRow1_Always(N) == TRUE

\* if N > 1: (line 230)
SpecialRow1(N) == N > 1

JacobiRows(N, alpha, beta) ==
    [k \in 1..N |->
        IF k = 1 THEN JacobiRow0(alpha, beta)
        ELSE IF k = 2
        THEN IF SpecialRow1(N) THEN JacobiRow1(alpha, beta)
             ELSE JacobiRowInitial(alpha, beta)
        ELSE JacobiRowGeneral(k - 1, alpha, beta)]

ApplyProbability_Always(ab, probability) == SetBeta0(ab)

\* if probability: ab[0,1] = 1.
ApplyProbability(ab, probability) == IF probability THEN SetBeta0(ab) ELSE ab

jacobi_recurrence(N, alpha, beta, probability) ==
    IF N < 1 THEN EmptyTable
    \* numpy refuses to write ab[1,:] of a table that has one row
    ELSE IF SpecialRow1(N) /\ ~(1 < N) THEN IndexError
    ELSE Table(ApplyProbability(SqrtColumn(JacobiRows(N, alpha, beta)),
                                probability))

(* ------------------------- hermite_recurrence -------------------------- *)
\* rho is an integer >= 0 in the model: Gamma(rho + 1/2) is the rational
\* (2 rho)! / (4^rho rho!) times sqrt(pi).

\* ab[0,1] = sp.gamma(rho+0.5)
HermiteNorm(rho) ==
    Scaled(Rat(Factorial(2 * rho), Pow(4, rho) * Factorial(rho)), 1)

\* ab[i,1] for i >= 1 before the square root (lines 274-280)
HermiteBeta(i, rho, probability) ==
    LET base == IF rho = 0 /\ probability THEN Int2Rat(i) ELSE Rat(i, 2)
    IN  IF i % 2 = 1 THEN RAdd(base, Int2Rat(rho)) ELSE base

HermiteRows(Nterms, rho, probability) ==
    [k \in 1..Nterms |->
        IF k = 1 THEN <<Zero, HermiteNorm(rho)>>
        ELSE <<Zero, Plain(HermiteBeta(k - 1, rho, probability))>>]

hermite_recurrence(Nterms, rho, probability) ==
    IF Nterms < 1 THEN EmptyTable
    ELSE Table(ApplyProbability(SqrtColumn(HermiteRows(Nterms, rho, probability)),
                                probability))

(* ------------------------ calls of the providers ----------------------- *)

Terms == (-1)..MaxN
Trials == (-1)..(MaxN + 1)
IntParams == (-MaxParam)..MaxParam
NatParams == 0..MaxParam
\* Poisson rates
Rates == {Rat(1, 2), One, Int2Rat(2)}
\* success probabilities, the two ends of [0,1] included
Probs == {Zero, Rat(1, 3), Rat(1, 2), One}

Idle == fn = "none"

\* no array allocated yet and no sampler running
NoLocals == [pc |-> "none"]

Init ==
    /\ fn = "none"
    /\ args = <<>>
    /\ ret = NoResult
    /\ heap = <<>>
    /\ local = NoLocals

CallCharlier ==
    /\ Idle
    /\ UNCHANGED <<heap, local>>
    /\ \E N \in Terms, a \in Rates :
        /\ fn' = "charlier_recurrence"
        /\ args' = [N |-> N, a |-> a]
        /\ ret' = charlier_recurrence(N, a)

CallChebyshev ==
    /\ Idle
    /\ UNCHANGED <<heap, local>>
    /\ \E N \in Terms, Ntrials \in Trials :
        /\ fn' = "discrete_chebyshev_recurrence"
        /\ args' = [N |-> N, Ntrials |-> Ntrials]
        /\ ret' = discrete_chebyshev_recurrence(N, Ntrials)

CallHahn ==
    /\ Idle
    /\ UNCHANGED <<heap, local>>
    /\ \E Nterms \in Terms, N \in Trials, alphaPoly \in IntParams, betaPoly \in IntParams :
        /\ fn' = "hahn_recurrence"
        /\ args' = [Nterms |-> Nterms, N |-> N,
                    alphaPoly |-> alphaPoly, betaPoly |-> betaPoly]
        /\ ret' = hahn_recurrence(Nterms, N, alphaPoly, betaPoly)

CallKrawtchouk ==
    /\ Idle
    /\ UNCHANGED <<heap, local>>
    /\ \E Nterms \in Terms, Ntrials \in Trials, p \in Probs :
        /\ fn' = "krawtchouk_recurrence"
        /\ args' = [Nterms |-> Nterms, Ntrials |-> Ntrials, p |-> p]
        /\ ret' = krawtchouk_recurrence(Nterms, Ntrials, p)

CallJacobi ==
    /\ Idle
    /\ UNCHANGED <<heap, local>>
    /\ \E N \in Terms, alpha \in NatParams, beta \in NatParams, probability \in BOOLEAN :
        /\ fn' = "jacobi_recurrence"
        /\ args' = [N |-> N, alpha |-> alpha, beta |-> beta,
                    probability |-> probability]
        /\ ret' = jacobi_recurrence(N, alpha, beta, probability)

CallHermite ==
    /\ Idle
    /\ UNCHANGED <<heap, local>>
    /\ \E Nterms \in Terms, rho \in NatParams, probability \in BOOLEAN :
        /\ fn' = "hermite_recurrence"
        /\ args' = [Nterms |-> Nterms, rho |-> rho, probability |-> probability]
        /\ ret' = hermite_recurrence(Nterms, rho, probability)

NextRecurrence ==
    \/ CallCharlier
    \/ CallChebyshev
    \/ CallHahn
    \/ CallKrawtchouk
    \/ CallJacobi
    \/ CallHermite

SpecRecurrence == Init /\ [][NextRecurrence]_vars

(* ------------------- properties of the providers ----------------------- *)

Providers ==
    {"charlier_recurrence", "discrete_chebyshev_recurrence", "hahn_recurrence",
     "krawtchouk_recurrence", "jacobi_recurrence", "hermite_recurrence"}

\* the number of terms the call asked for
NumTerms ==
    IF fn \in {"hahn_recurrence", "krawtchouk_recurrence", "hermite_recurrence"}
    THEN args.Nterms ELSE args.N

\* the parameter assertions the called provider states
AssertionsHold ==
    CASE fn = "discrete_chebyshev_recurrence" -> args.N <= args.Ntrials
      [] fn = "hahn_recurrence" -> args.Nterms <= args.N
      [] fn = "krawtchouk_recurrence" ->
            /\ args.Nterms <= args.Ntrials
            /\ RLess(Zero, args.p) /\ RLess(args.p, One)
      [] OTHER -> TRUE

IsEmptyTable(r) == r.kind = "table" /\ r.shape = <<0, 2>> /\ r.ab = <<>>

BetaNonNegative(b) == ~b.nan /\ ~RIsNeg(b.rad)

\* C1 as stated: every provider, asked for N < 1 terms, returns the empty
\* (0,2) table and raises nothing, whatever the other parameters are.
C1_Original ==
    (fn \in Providers /\ NumTerms < 1) => IsEmptyTable(ret)

\* C1 amended: a provider asked for N < 1 terms returns the empty (0,2) table
\* when its parameter assertions hold (none for charlier, jacobi and hermite);
\* discrete_chebyshev, hahn and krawtchouk check N <= Ntrials (and 0 < p < 1)
\* before the N < 1 test and raise AssertionError when that fails.
C1_Amended ==
    (fn \in Providers /\ NumTerms < 1) =>
        IF AssertionsHold THEN IsEmptyTable(ret) ELSE ret = AssertionError

C1_Witness ==
    /\ fn = "krawtchouk_recurrence"
    /\ args.Nterms = 0 /\ args.Ntrials = 0 /\ args.p = Rat(1, 2)
    /\ IsEmptyTable(ret)

\* C2: for N >= 1 and accepted parameters the returned table has a beta
\* column of values >= 0, never NaN (a negative value under the square root
\* is clamped to 0).
C2_Claim ==
    (fn \in Providers /\ NumTerms >= 1 /\ ret.kind = "table") =>
        \A i \in 1..Len(ret.ab) : BetaNonNegative(ret.ab[i][2])

\* C3: for N >= 1 jacobi, hermite, krawtchouk, hahn and discrete_chebyshev
\* return a table of exactly N rows and 2 columns.
C3_RowCount ==
    (/\ fn \in Providers \ {"charlier_recurrence"}
     /\ NumTerms >= 1
     /\ ret.kind = "table") =>
        /\ ret.shape = <<NumTerms, 2>>
        /\ Len(ret.ab) = NumTerms
        /\ \A i \in 1..Len(ret.ab) : Len(ret.ab[i]) = 2

C3_Witness ==
    /\ fn = "hahn_recurrence"
    /\ args.Nterms = 1
    /\ ret.kind = "table"
    /\ ret.shape = <<1, 2>>

\* C4: charlier_recurrence(N, a) with N >= 1 returns an array of shape (N,2).
C4_Claim ==
    (fn = "charlier_recurrence" /\ args.N >= 1) => ret.shape = <<args.N, 2>>

\* the closed-form normalization of the called family (jacobi, hermite)
ClosedFormNorm ==
    IF fn = "jacobi_recurrence" THEN Plain(JacobiNorm(args.alpha, args.beta))
    ELSE HermiteNorm(args.rho)

C5_ForcedOne ==
    /\ (/\ fn \in {"jacobi_recurrence", "hermite_recurrence"}
        /\ NumTerms >= 1 /\ args.probability) => ret.ab[1][2] = RootOne
    /\ (/\ fn \in {"krawtchouk_recurrence", "hahn_recurrence",
                   "discrete_chebyshev_recurrence", "charlier_recurrence"}
        /\ NumTerms >= 1 /\ ret.kind = "table") => ret.ab[1][2] = RootOne

C5_NoProbability ==
    /\ fn \in {"jacobi_recurrence", "hermite_recurrence"}
    /\ NumTerms >= 1 /\ ~args.probability

C19_Row1 ==
    LET a == args.alpha
        b == args.beta
    IN  <<Rat(b * b - a * a, (2 + a + b) * (4 + a + b)),
          Root(Rat(4 * (a + 1) * (b + 1), (a + b + 2) * (a + b + 2) * (a + b + 3)),
               0)>>

\* the general formula of the rows i >= 2
C19_RowGeneral(i) ==
    LET a == args.alpha
        b == args.beta
        s == 2 * i + a + b
    IN  <<Rat(b * b - a * a, s * (s + 2)),
          Root(Rat(4 * i * (i + a) * (i + b) * (i + a + b),
                   s * s * (s + 1) * (s - 1)), 0)>>

\* C19: jacobi_recurrence gives row 1 its special treatment exactly when
\* N > 1: it then holds alpha_1 = (beta^2 - alpha^2)/((2+alpha+beta)
\* (4+alpha+beta)) and beta_1 = sqrt(4(alpha+1)(beta+1)/((alpha+beta+2)^2
\* (alpha+beta+3))), every row i >= 2 holds the general formula, and a call
\* with N = 1 returns its one row without any out-of-range access.
C19_Row1Special ==
    (fn = "jacobi_recurrence" /\ args.N >= 1) =>
        /\ ret.kind = "table"
        /\ Len(ret.ab) = args.N
        /\ args.N > 1 => ret.ab[2] = C19_Row1
        /\ \A i \in 2..(args.N - 1) : ret.ab[i + 1] = C19_RowGeneral(i)

\* a three-row table of a non-symmetric weight: row 1 and a general row
C19_Witness ==
    /\ fn = "jacobi_recurrence"
    /\ args.N = 3 /\ args.alpha = 1 /\ args.beta = 2
    /\ ret.kind = "table"
    /\ ret.ab[2][1] = Rat(3, 35)
    /\ ret.ab[3] = C19_RowGeneral(2)

(* ---------------- evaluate_orthonormal_polynomial_1d ------------------- *)
\* A table handed to an evaluator has rational entries; ab[i,0] is
\* A(ab, i) and ab[i,1] is B(ab, i).

A(ab, i) == ab[i + 1][1]
B(ab, i) == ab[i + 1][2]

\* p[:,jj] of one sample; p holds the columns 0..jj-1 already computed
RecurStep_Unnormalized(x, ab, jj, p) ==
    IF jj = 0 THEN RDiv(One, B(ab, 0))
    ELSE IF jj = 1 THEN RMul(RSub(x, A(ab, 0)), p[1])
    ELSE RSub(RMul(RSub(x, A(ab, jj - 1)), p[jj]),
              RMul(B(ab, jj - 1), p[jj - 1]))

\* lines 373, 376 and 380
RecurStep(x, ab, jj, p) ==
    IF jj = 0 THEN RDiv(One, B(ab, 0))
    ELSE IF jj = 1
    THEN RMul(RDiv(One, B(ab, 1)), RMul(RSub(x, A(ab, 0)), p[1]))
    ELSE RMul(RDiv(One, B(ab, jj)),
              RSub(RMul(RSub(x, A(ab, jj - 1)), p[jj]),
                   RMul(B(ab, jj - 1), p[jj - 1])))

\* the column loop of lines 373-380 for one sample
RECURSIVE RecurLoop(_, _, _, _, _)
RecurLoop(x, ab, nmax, jj, p) ==
    IF jj > nmax THEN p
    ELSE RecurLoop(x, ab, nmax, jj + 1, Append(p, RecurStep(x, ab, jj, p)))

\* lines 371-382: p[s] is row s of the (num_samples, nmax+1) array
PureArrayEvaluate(x, nmax, ab) ==
    [s \in 1..Len(x) |-> RecurLoop(x[s], ab, nmax, 0, <<>>)]

\* the compiled extension evaluates the same recurrence
evaluate_orthonormal_polynomial_1d_pyx(x, nmax, ab) ==
    PureArrayEvaluate(x, nmax, ab)

Values(path, p) == [kind |-> "values", path |-> path, p |-> p]

EntryCheck_Late(nmax, ab) == TRUE

\* assert nmax < ab.shape[0]  (ab.shape[1] is 2 for every table)
EntryCheck(nmax, ab) == nmax < Len(ab)

\* ext: the import of the compiled extension succeeds
evaluate_orthonormal_polynomial_1d(x, nmax, ab, ext) ==
    IF ~EntryCheck(nmax, ab) THEN AssertionError
    \* numpy refuses to read a row the table does not have
    ELSE IF ~(nmax < Len(ab)) THEN IndexError
    ELSE IF ext
    THEN Values("pyx", evaluate_orthonormal_polynomial_1d_pyx(x, nmax, ab))
    ELSE Values("array", PureArrayEvaluate(x, nmax, ab))

(* -------------- evaluate_orthonormal_polynomial_deriv_1d --------------- *)

RECURSIVE ProdAbsB(_, _)
\* |b[0]| * ... * |b[jj]|
ProdAbsB(ab, jj) ==
    IF jj < 0 THEN One ELSE RMul(RAbs(B(ab, jj)), ProdAbsB(ab, jj - 1))

DerivLead_NoFactorial(ab, deriv_num) == RDiv(One, ProdAbsB(ab, deriv_num))

\* np.exp(sp.gammaln(deriv_num+1) - 0.5*np.sum(np.log(b[:jj+1]**2)))
DerivLead(ab, deriv_num) ==
    RDiv(Int2Rat(Factorial(deriv_num)), ProdAbsB(ab, deriv_num))

\* lines 456-458; pd holds the columns 0..jj-1 of this block, p the
\* previous block
DerivStep(x, ab, deriv_num, jj, pd, p) ==
    RMul(RAdd(RSub(RMul(RSub(x, A(ab, jj - 1)), pd[jj]),
                   RMul(B(ab, jj - 1), pd[jj - 1])),
              RMul(Int2Rat(deriv_num), p[jj])),
         RDiv(One, B(ab, jj)))

\* the jj loop of lines 446-458 for one sample
RECURSIVE DerivLoop(_, _, _, _, _, _, _)
DerivLoop(x, ab, nmax, deriv_num, jj, pd, p) ==
    IF jj > nmax THEN pd
    ELSE DerivLoop(x, ab, nmax, deriv_num, jj + 1,
            Append(pd,
                IF jj < deriv_num THEN Zero
                ELSE IF jj = deriv_num THEN DerivLead(ab, deriv_num)
                ELSE DerivStep(x, ab, deriv_num, jj, pd, p)),
            p)

\* the deriv_num loop of lines 445-460 for one sample: result holds the
\* blocks 0..deriv_num-1, p is block deriv_num-1
RECURSIVE DerivBlocks(_, _, _, _, _, _, _)
DerivBlocks(x, ab, nmax, deriv_order, deriv_num, p, result) ==
    IF deriv_num > deriv_order THEN result
    ELSE LET pd == DerivLoop(x, ab, nmax, deriv_num, 0, <<>>, p)
         IN  DerivBlocks(x, ab, nmax, deriv_order, deriv_num + 1, pd,
                         result \o pd)

\* the compiled extension evaluates the same recurrences
evaluate_orthonormal_polynomial_deriv_1d_pyx(x, nmax, ab, deriv_order) ==
    [s \in 1..Len(x) |->
        LET p == RecurLoop(x[s], ab, nmax, 0, <<>>)
        IN  DerivBlocks(x[s], ab, nmax, deriv_order, 1, p, p)]

evaluate_orthonormal_polynomial_deriv_1d(x, nmax, ab, deriv_order, ext) ==
    IF ext
    \* an exception inside the extension is caught (line 435); the pure path
    \* that follows then fails the assert of evaluate_orthonormal_polynomial_1d
    THEN IF ~(nmax < Len(ab)) THEN AssertionError
         ELSE Values("pyx",
                evaluate_orthonormal_polynomial_deriv_1d_pyx(x, nmax, ab, deriv_order))
    ELSE LET first == evaluate_orthonormal_polynomial_1d(x, nmax, ab, ext)
         IN  IF first.kind # "values" THEN first
             ELSE Values("array",
                    [s \in 1..Len(x) |->
                        DerivBlocks(x[s], ab, nmax, deriv_order, 1,
                                    first.p[s], first.p[s])])

(* ---------- convert_orthonormal_polynomials_to_monomials_1d ------------ *)

\* entry i of a row of monomial_coefs, 0 outside the row
Coef(row, i) == IF i >= 0 /\ i < Len(row) THEN row[i + 1] ELSE Zero

MonomialShift_None(prev1, i, jj) ==
    IF i < jj THEN Coef(prev1, i) ELSE Zero

\* monomial_coefs[jj,1:jj+1] += monomial_coefs[jj-1,:jj] (before the division)
MonomialShift(prev1, i, jj) ==
    IF 1 <= i /\ i <= jj THEN Coef(prev1, i - 1) ELSE Zero

\* row jj of monomial_coefs (lines 526, 529, 532-535); prev1 and prev2 are
\* rows jj-1 and jj-2
MonomialRow(ab, nmax, jj, prev1, prev2) ==
    [k \in 1..(nmax + 1) |->
        LET i == k - 1 IN
        IF jj = 0 THEN (IF i = 0 THEN RDiv(One, B(ab, 0)) ELSE Zero)
        ELSE IF jj = 1
        THEN (IF i = 0 THEN RDiv(RMul(RNeg(A(ab, 0)), prev1[1]), B(ab, 1))
              ELSE IF i = 1 THEN RDiv(prev1[1], B(ab, 1))
              ELSE Zero)
        ELSE RAdd(
                IF i < jj
                THEN RDiv(RSub(RMul(RNeg(A(ab, jj - 1)), Coef(prev1, i)),
                               RMul(B(ab, jj - 1), Coef(prev2, i))),
                          B(ab, jj))
                ELSE Zero,
                RDiv(MonomialShift(prev1, i, jj), B(ab, jj)))]

\* the row loop of lines 524-535
RECURSIVE MonomialLoop(_, _, _, _)
MonomialLoop(ab, nmax, jj, monomial_coefs) ==
    IF jj > nmax THEN monomial_coefs
    ELSE MonomialLoop(ab, nmax, jj + 1,
            Append(monomial_coefs,
                   MonomialRow(ab, nmax, jj,
                       IF jj >= 1 THEN monomial_coefs[jj] ELSE <<>>,
                       IF jj >= 2 THEN monomial_coefs[jj - 1] ELSE <<>>)))

convert_orthonormal_polynomials_to_monomials_1d(ab, nmax) ==
    IF ~(nmax < Len(ab)) THEN AssertionError
    ELSE [kind |-> "monomial_coefs",
          coefs |-> MonomialLoop(ab, nmax, 0, <<>>)]

(* ------- convert_orthonormal_recurence_to_three_term_recurence --------- *)

ThreeTermRow_ShiftedAlpha(recursion_coefs, i) ==
    <<RDiv(One, B(recursion_coefs, i)),
      IF i >= 1 THEN RDiv(A(recursion_coefs, i), B(recursion_coefs, i))
      ELSE Zero,
      IF i >= 1 THEN RDiv(B(recursion_coefs, i - 1), B(recursion_coefs, i))
      ELSE Zero>>

\* row i of abc (lines 602-605)
ThreeTermRow(recursion_coefs, i) ==
    <<RDiv(One, B(recursion_coefs, i)),
      IF i >= 1 THEN RDiv(A(recursion_coefs, i - 1), B(recursion_coefs, i))
      ELSE Zero,
      IF i >= 1 THEN RDiv(B(recursion_coefs, i - 1), B(recursion_coefs, i))
      ELSE Zero>>

convert_orthonormal_recurence_to_three_term_recurence(recursion_coefs) ==
    [k \in 1..Len(recursion_coefs) |-> ThreeTermRow(recursion_coefs, k - 1)]

(* ----------------------- calls of the evaluators ----------------------- *)

\* entries of the tables handed to the evaluators: beta > 0, as the
\* RecurrenceCoefficients invariant has it
AlphaVals == {Int2Rat(-1), Rat(1, 2)}
BetaVals == {Rat(1, 2), Int2Rat(2)}
RowVals == {<<al, be>> : al \in AlphaVals, be \in BetaVals}
EvalTables == UNION {[1..K -> RowVals] : K \in 0..MaxRows}
Degrees == 0..MaxRows
DerivOrders == 0..MaxDeriv
\* the sample vectors x
SampleVecs ==
    {<<Rat(1, 2)>>, <<Int2Rat(-1), Zero, Int2Rat(2)>>}

CallEvaluate ==
    /\ Idle
    /\ UNCHANGED <<heap, local>>
    /\ \E x \in SampleVecs, nmax \in Degrees, ab \in EvalTables, ext \in BOOLEAN :
        /\ fn' = "evaluate_orthonormal_polynomial_1d"
        /\ args' = [x |-> x, nmax |-> nmax, ab |-> ab, ext |-> ext]
        /\ ret' = evaluate_orthonormal_polynomial_1d(x, nmax, ab, ext)

CallEvaluateDeriv ==
    /\ Idle
    /\ UNCHANGED <<heap, local>>
    /\ \E x \in SampleVecs, nmax \in Degrees, ab \in EvalTables,
          deriv_order \in DerivOrders, ext \in BOOLEAN :
        /\ fn' = "evaluate_orthonormal_polynomial_deriv_1d"
        /\ args' = [x |-> x, nmax |-> nmax, ab |-> ab,
                    deriv_order |-> deriv_order, ext |-> ext]
        /\ ret' = evaluate_orthonormal_polynomial_deriv_1d(
                      x, nmax, ab, deriv_order, ext)

CallConvertToMonomials ==
    /\ Idle
    /\ UNCHANGED <<heap, local>>
    /\ \E ab \in EvalTables, nmax \in Degrees :
        /\ fn' = "convert_orthonormal_polynomials_to_monomials_1d"
        /\ args' = [ab |-> ab, nmax |-> nmax]
        /\ ret' = convert_orthonormal_polynomials_to_monomials_1d(ab, nmax)

CallConvertToThreeTerm ==
    /\ Idle
    /\ UNCHANGED <<heap, local>>
    /\ \E recursion_coefs \in EvalTables :
        /\ fn' = "convert_orthonormal_recurence_to_three_term_recurence"
        /\ args' = [recursion_coefs |-> recursion_coefs]
        /\ ret' = [kind |-> "abc",
                   abc |-> convert_orthonormal_recurence_to_three_term_recurence(
                               recursion_coefs)]

NextEvaluate ==
    \/ CallEvaluate
    \/ CallEvaluateDeriv
    \/ CallConvertToMonomials
    \/ CallConvertToThreeTerm

SpecEvaluate == Init /\ [][NextEvaluate]_vars

(* ------------------- properties of the evaluators ---------------------- *)

\* C6: evaluate_orthonormal_polynomial_1d called with a table of fewer than
\* nmax+1 rows fails at the entry point with the precondition error (the
\* assert of line 358), whether or not the compiled extension is available,
\* and returns no basis values.
C6_EntryError ==
    (/\ fn = "evaluate_orthonormal_polynomial_1d"
     /\ Len(args.ab) < args.nmax + 1) =>
        /\ ret = AssertionError
        /\ ret.kind # "values"

C6_Witness ==
    /\ fn = "evaluate_orthonormal_polynomial_1d"
    /\ Len(args.ab) = 2 /\ args.nmax = 2 /\ args.ext
    /\ ret = AssertionError

\* column j of row s of a returned matrix
Col(p, s, j) == p[s][j + 1]

\* C7: on the pure-array path, with at least nmax+1 rows, the result is a
\* (num_samples x (nmax+1)) matrix with p_0 = 1/beta_0,
\* p_1 = (x - alpha_0) p_0 / beta_1 and
\* p_j = ((x - alpha_{j-1}) p_{j-1} - beta_{j-1} p_{j-2}) / beta_j for j >= 2;
\* a one-row table serves nmax = 0.
C7_Recurrence ==
    (/\ fn = "evaluate_orthonormal_polynomial_1d"
     /\ ~args.ext
     /\ args.nmax < Len(args.ab)) =>
        /\ ret.kind = "values" /\ ret.path = "array"
        /\ Len(ret.p) = Len(args.x)
        /\ \A s \in 1..Len(args.x) :
            /\ Len(ret.p[s]) = args.nmax + 1
            /\ Col(ret.p, s, 0) = RDiv(One, B(args.ab, 0))
            /\ args.nmax >= 1 =>
                Col(ret.p, s, 1) =
                    RDiv(RMul(RSub(args.x[s], A(args.ab, 0)), Col(ret.p, s, 0)),
                         B(args.ab, 1))
            /\ \A j \in 2..args.nmax :
                Col(ret.p, s, j) =
                    RDiv(RSub(RMul(RSub(args.x[s], A(args.ab, j - 1)),
                                   Col(ret.p, s, j - 1)),
                              RMul(B(args.ab, j - 1), Col(ret.p, s, j - 2))),
                         B(args.ab, j))

C7_Witness ==
    /\ fn = "evaluate_orthonormal_polynomial_1d"
    /\ ~args.ext
    /\ args.nmax = 3 /\ Len(args.ab) = 4 /\ Len(args.x) = 3
    /\ ret.kind = "values"
    /\ ~RIsZero(Col(ret.p, 3, 1)) /\ ~RIsZero(Col(ret.p, 3, 3))

RECURSIVE ProdB(_, _)
\* beta_0 * ... * beta_d
ProdB(ab, d) == IF d < 0 THEN One ELSE RMul(B(ab, d), ProdB(ab, d - 1))

\* column j of block d of row s of the matrix the derivative call returned
Blk(s, d, j) == ret.p[s][d * (args.nmax + 1) + j + 1]

RECURSIVE RPow(_, _)
RPow(x, e) == IF e <= 0 THEN One ELSE RMul(x, RPow(x, e - 1))

RECURSIVE MonomialValue(_, _, _)
\* sum over i <= k of row[i] * x^i
MonomialValue(row, x, k) ==
    IF k < 0 THEN Zero
    ELSE RAdd(RMul(Coef(row, k), RPow(x, k)), MonomialValue(row, x, k - 1))

\* the points at which the monomial form is compared with the recurrence
CheckPoints == {Int2Rat(-2), Rat(-1, 3), Zero, Rat(1, 2), One, Int2Rat(3)}

\* C9: the conversion returns an (nmax+1)x(nmax+1) lower-triangular matrix
\* whose row j, read as monomial coefficients, takes at every x the value
\* of column j of evaluate_orthonormal_polynomial_1d(x, nmax, ab).
C9_Monomials ==
    (/\ fn = "convert_orthonormal_polynomials_to_monomials_1d"
     /\ args.nmax < Len(args.ab)) =>
        /\ ret.kind = "monomial_coefs"
        /\ Len(ret.coefs) = args.nmax + 1
        /\ \A j \in 0..args.nmax :
            /\ Len(ret.coefs[j + 1]) = args.nmax + 1
            /\ \A i \in 0..args.nmax : i > j => Coef(ret.coefs[j + 1], i) = Zero
            /\ \A x \in CheckPoints :
                MonomialValue(ret.coefs[j + 1], x, args.nmax) =
                    Col(PureArrayEvaluate(<<x>>, args.nmax, args.ab), 1, j)

C9_Witness ==
    /\ fn = "convert_orthonormal_polynomials_to_monomials_1d"
    /\ args.nmax = 3 /\ Len(args.ab) = 4
    /\ ret.kind = "monomial_coefs"
    /\ \A i \in 0..3 : ~RIsZero(Coef(ret.coefs[4], i))

\* the three-term table of the call and of another two-term table
SameThreeTerm(other) ==
    convert_orthonormal_recurence_to_three_term_recurence(other) = ret.abc

\* C10 as stated: two different (alpha, beta) tables never map to the same
\* three-term table, so every row, the last alpha included, can be recovered.
C10_Original ==
    fn = "convert_orthonormal_recurence_to_three_term_recurence" =>
        \A other \in EvalTables :
            SameThreeTerm(other) => other = args.recursion_coefs

\* C10 amended: two (alpha, beta) tables with non-zero beta that map to the
\* same three-term table have the same number of rows, the same beta column
\* and the same alpha in every row but the last; the last row's alpha does
\* not enter the three-term table and cannot be recovered.
C10_Amended ==
    fn = "convert_orthonormal_recurence_to_three_term_recurence" =>
        /\ Len(ret.abc) = Len(args.recursion_coefs)
        /\ \A k \in 1..Len(ret.abc) : Len(ret.abc[k]) = 3
        /\ \A other \in EvalTables :
            SameThreeTerm(other) =>
                /\ Len(other) = Len(args.recursion_coefs)
                /\ \A i \in 0..(Len(other) - 1) :
                    /\ B(other, i) = B(args.recursion_coefs, i)
                    /\ i < Len(other) - 1 =>
                        A(other, i) = A(args.recursion_coefs, i)

C10_Witness ==
    /\ fn = "convert_orthonormal_recurence_to_three_term_recurence"
    /\ Len(args.recursion_coefs) = 3
    /\ \E other \in EvalTables :
        /\ SameThreeTerm(other)
        /\ other # args.recursion_coefs
        /\ A(other, 2) # A(args.recursion_coefs, 2)

(* ------------------------- floats of a Gauss rule ---------------------- *)
\* gauss_quadrature meets irrational nodes and the IEEE specials.  A float
\* of this part is q * sqrt(r) with q rational and r a square-free positive
\* integer (r = 1 when q = 0), or +inf, -inf or NaN.  A sum of two finite
\* values with different r has no such form: it is the value Beyond, which
\* no claim accepts as a node or as a weight.

\* largest order of a Gauss rule asked for
MaxQuad == 3

Fin(q, r) == [k |-> "fin", q |-> q, r |-> IF RIsZero(q) THEN 1 ELSE r]
Inf(neg) == [k |-> "inf", neg |-> neg]
FNaN == [k |-> "nan"]
Beyond == [k |-> "beyond"]
FRat(q) == Fin(q, 1)
FZero == FRat(Zero)
FOne == FRat(One)

IsFin(u) == u.k = "fin"
FIsZero(u) == IsFin(u) /\ RIsZero(u.q)
\* the sign bit; a zero of the model is +0.0
FIsNeg(u) == IF IsFin(u) THEN RIsNeg(u.q) ELSE u.k = "inf" /\ u.neg

\* the largest k >= from with k*k dividing m, or 1
RECURSIVE SquarePart(_, _)
SquarePart(m, from) ==
    IF from * from > m THEN 1
    ELSE LET rest == SquarePart(m, from + 1)
         IN  IF rest > 1 THEN rest
             ELSE IF m % (from * from) = 0 THEN from ELSE 1

\* sqrt(n/d) = k * sqrt(r) / d, where n * d = k * k * r and r is square-free
SqrtRat(v) ==
    IF RIsZero(v) THEN FZero
    ELSE LET m == v[1] * v[2]
             k == SquarePart(m, 1)
         IN  Fin(Rat(k, v[2]), m \div (k * k))

\* the float held by an entry of the beta column
FromRoot(b) == IF b.nan \/ b.pi4 # 0 THEN FNaN ELSE SqrtRat(b.rad)

FNeg(u) ==
    IF IsFin(u) THEN Fin(RNeg(u.q), u.r)
    ELSE IF u.k = "inf" THEN Inf(~u.neg)
    ELSE u

FinMul(u, v) ==
    LET g == GCD(u.r, v.r)
    IN  Fin(RMul(RMul(u.q, v.q), Int2Rat(g)), (u.r \div g) * (v.r \div g))

FMul(u, v) ==
    IF u.k = "nan" \/ v.k = "nan" THEN FNaN
    ELSE IF u.k = "beyond" \/ v.k = "beyond" THEN Beyond
    ELSE IF u.k = "inf" \/ v.k = "inf"
    THEN IF FIsZero(u) \/ FIsZero(v) THEN FNaN
         ELSE Inf(FIsNeg(u) # FIsNeg(v))
    ELSE FinMul(u, v)

\* 1 / (q sqrt(r)) = sqrt(r) / (q r), for q # 0
FinInv(v) == Fin(RDiv(One, RMul(v.q, Int2Rat(v.r))), v.r)

FDiv(u, v) ==
    IF u.k = "nan" \/ v.k = "nan" THEN FNaN
    ELSE IF u.k = "beyond" \/ v.k = "beyond" THEN Beyond
    ELSE IF v.k = "inf"
    THEN IF u.k = "inf" THEN FNaN ELSE FZero
    ELSE IF FIsZero(v)
    THEN IF FIsZero(u) THEN FNaN ELSE Inf(FIsNeg(u))
    ELSE IF u.k = "inf" THEN Inf(u.neg # FIsNeg(v))
    ELSE FinMul(u, FinInv(v))

FAdd(u, v) ==
    IF u.k = "nan" \/ v.k = "nan" THEN FNaN
    ELSE IF u.k = "beyond" \/ v.k = "beyond" THEN Beyond
    ELSE IF u.k = "inf"
    THEN IF v.k = "inf" /\ v.neg # u.neg THEN FNaN ELSE u
    ELSE IF v.k = "inf" THEN v
    ELSE IF FIsZero(u) THEN v
    ELSE IF FIsZero(v) THEN u
    ELSE IF u.r = v.r THEN Fin(RAdd(u.q, v.q), u.r)
    ELSE Beyond

FSub(u, v) == FAdd(u, FNeg(v))

\* the square of a finite value, a rational
FinSquare(u) == RMul(RMul(u.q, u.q), Int2Rat(u.r))

\* u < v for finite u and v
FLess(u, v) ==
    IF FIsNeg(u) # FIsNeg(v) THEN FIsNeg(u)
    ELSE IF FIsNeg(u) THEN RLess(FinSquare(v), FinSquare(u))
    ELSE RLess(FinSquare(u), FinSquare(v))

\* np.isfinite
IsFinite(u) == u.k \notin {"inf", "nan"}

RECURSIVE FSum(_)
FSum(seq) == IF seq = <<>> THEN FZero ELSE FAdd(Head(seq), FSum(Tail(seq)))

(* --------------------------- np.linalg.eigh ---------------------------- *)
\* The Jacobi matrix is [diag, off]: its diagonal and its first off-diagonal.
\* It is the direct sum of the blocks between the zeros of the off-diagonal.
\* The eigenvalues of a block are the roots of its characteristic polynomial,
\* all simple; they are looked for among the diagonal entries and the two
\* square roots of the sum of the squared off-diagonal entries, which holds
\* every root of a block of order <= 3 with a zero diagonal.

Min(a, b) == IF a < b THEN a ELSE b
Max(a, b) == IF a < b THEN b ELSE a

\* seq[lo:hi] of Python, for lo >= 0
PySlice(seq, lo, hi) ==
    LET h == IF hi < 0 THEN Max(Len(seq) + hi, 0) ELSE Min(hi, Len(seq))
    IN  SubSeq(seq, lo + 1, h)

RECURSIVE SplitBlocks(_, _, _, _)
SplitBlocks(diag, off, i, cur) ==
    IF i > Len(diag) THEN <<>>
    ELSE LET d == Append(cur.d, diag[i])
         IN  IF i = Len(diag) THEN <<[d |-> d, o |-> cur.o]>>
             ELSE IF FIsZero(off[i])
             THEN <<[d |-> d, o |-> cur.o]>>
                  \o SplitBlocks(diag, off, i + 1, [d |-> <<>>, o |-> <<>>])
             ELSE SplitBlocks(diag, off, i + 1,
                              [d |-> d, o |-> Append(cur.o, off[i])])

\* det(x I - block) by the three-term recurrence of the leading minors
RECURSIVE CharPoly(_, _, _, _, _)
CharPoly(blk, x, k, prev, cur) ==
    IF k > Len(blk.d) THEN cur
    ELSE CharPoly(blk, x, k + 1, cur,
                  FSub(FMul(FSub(x, blk.d[k]), cur),
                       IF k = 1 THEN FZero
                       ELSE FMul(FMul(blk.o[k - 1], blk.o[k - 1]), prev)))

RECURSIVE SumSquares(_)
SumSquares(o) ==
    IF o = <<>> THEN Zero ELSE RAdd(FinSquare(Head(o)), SumSquares(Tail(o)))

Candidates(blk) ==
    {blk.d[i] : i \in 1..Len(blk.d)}
        \cup {SqrtRat(SumSquares(blk.o)), FNeg(SqrtRat(SumSquares(blk.o)))}

BlockEigenvalues(blk) ==
    {x \in Candidates(blk) : FIsZero(CharPoly(blk, x, 1, FZero, FOne))}

\* the block has all its eigenvalues among the candidates
BlockExact(blk) == Cardinality(BlockEigenvalues(blk)) = Len(blk.d)

RECURSIVE Ascending(_)
Ascending(S) ==
    IF S = {} THEN <<>>
    ELSE LET m == CHOOSE m \in S : \A y \in S \ {m} : FLess(m, y)
         IN  <<m>> \o Ascending(S \ {m})

RECURSIVE Insert(_, _)
Insert(x, seq) ==
    IF seq = <<>> THEN <<x>>
    ELSE IF FLess(Head(seq), x) THEN <<Head(seq)>> \o Insert(x, Tail(seq))
    ELSE <<x>> \o seq

RECURSIVE Merge(_, _)
Merge(xs, seq) == IF xs = <<>> THEN seq ELSE Merge(Tail(xs), Insert(Head(xs), seq))

RECURSIVE EighBlocks(_)
EighBlocks(blks) ==
    IF blks = <<>> THEN <<>>
    ELSE Merge(Ascending(BlockEigenvalues(Head(blks))), EighBlocks(Tail(blks)))

Blocks(J) == SplitBlocks(J.diag, J.off, 1, [d |-> <<>>, o |-> <<>>])

\* every eigenvalue of J has the form q * sqrt(r)
EighExact(J) == \A i \in 1..Len(Blocks(J)) : BlockExact(Blocks(J)[i])

\* x, __ = np.linalg.eigh(J): the eigenvalues in ascending order
Eigh(J) == EighBlocks(Blocks(J))

(* --------------------------- gauss_quadrature -------------------------- *)
\* A table handed to gauss_quadrature has float entries.

ValueError == [kind |-> "ValueError"]

\* lines 373, 376 and 380 on floats
FloatRecurStep(x, ab, jj, p) ==
    IF jj = 0 THEN FDiv(FOne, B(ab, 0))
    ELSE IF jj = 1
    THEN FMul(FDiv(FOne, B(ab, 1)), FMul(FSub(x, A(ab, 0)), p[1]))
    ELSE FMul(FDiv(FOne, B(ab, jj)),
              FSub(FMul(FSub(x, A(ab, jj - 1)), p[jj]),
                   FMul(B(ab, jj - 1), p[jj - 1])))

RECURSIVE FloatRecurLoop(_, _, _, _, _)
FloatRecurLoop(x, ab, nmax, jj, p) ==
    IF jj > nmax THEN p
    ELSE FloatRecurLoop(x, ab, nmax, jj + 1,
                        Append(p, FloatRecurStep(x, ab, jj, p)))

\* evaluate_orthonormal_polynomial_1d(x, N-1, recursion_coeffs) as line 498
\* calls it; the extension and the array code give the same values
EvaluateAtNodes(x, nmax, ab) ==
    IF ~EntryCheck(nmax, ab) THEN AssertionError
    \* np.zeros refuses a negative number of columns
    ELSE IF nmax + 1 < 0 THEN ValueError
    \* p[:,0] of an array without columns
    ELSE IF nmax + 1 = 0 THEN IndexError
    ELSE Values("array",
                [s \in 1..Len(x) |-> FloatRecurLoop(x[s], ab, nmax, 0, <<>>)])

Column(tab, c) == [i \in 1..Len(tab) |-> tab[i][c]]

\* J = np.diag(a[:N],0)+np.diag(b[1:N],1)+np.diag(b[1:N],-1)
JacobiMatrix(recursion_coeffs, N) ==
    [diag |-> PySlice(Column(recursion_coeffs, 1), 0, N),
     off |-> PySlice(Column(recursion_coeffs, 2), 1, N)]

SumOfSquares_Unsquared(row) == FSum(row)

\* np.sum(p**2) over one row
RECURSIVE SumOfSquares(_)
SumOfSquares(row) ==
    IF row = <<>> THEN FZero
    ELSE FAdd(FMul(Head(row), Head(row)), SumOfSquares(Tail(row)))

ZeroNonFinite_Keep(w) == w

\* w[~np.isfinite(w)] = 0.
ZeroNonFinite(w) == [i \in 1..Len(w) |-> IF IsFinite(w[i]) THEN w[i] ELSE FZero]

RawWeights_FirstColumn(p) ==
    [i \in 1..Len(p) |-> FDiv(FOne, FMul(p[i][1], p[i][1]))]

\* w = 1./np.sum(w**2,axis=1)
RawWeights(p) == [i \in 1..Len(p) |-> FDiv(FOne, SumOfSquares(p[i]))]

Rule(x, w) == [kind |-> "rule", x |-> x, w |-> w]

PositiveOrder_Unchecked(N) == TRUE

\* assert N > 0
PositiveOrder(N) == N > 0

gauss_quadrature(recursion_coeffs, N) ==
    IF ~PositiveOrder(N) THEN AssertionError
    ELSE IF ~(N <= Len(recursion_coeffs)) THEN AssertionError
    ELSE LET x == Eigh(JacobiMatrix(recursion_coeffs, N))
             p == EvaluateAtNodes(x, N - 1, recursion_coeffs)
         IN  IF p.kind # "values" THEN p
             ELSE Rule(x, ZeroNonFinite(RawWeights(p.p)))

(* ----------------------- calls of gauss_quadrature --------------------- *)

\* a provider's table as the float array the caller holds
FloatTable(ab) == [i \in 1..Len(ab) |-> <<FRat(ab[i][1]), FromRoot(ab[i][2])>>]

\* the table with the float v in the beta column of row i
WithBeta(tab, i, v) ==
    [k \in 1..Len(tab) |-> IF k = i + 1 THEN <<tab[k][1], v>> ELSE tab[k]]

\* the symmetric Jacobi weights (alpha = beta), Legendre first
SymmetricParams == 0..1

\* the tables of the symmetric Jacobi weights
ProviderTables ==
    {FloatTable(jacobi_recurrence(rows, k, k, probability).ab) :
        rows \in 0..MaxQuad, k \in SymmetricParams, probability \in BOOLEAN}

\* the same tables with one degenerate entry: beta_0 zero, infinite or NaN,
\* or a zero off-diagonal entry (the matrix handed to eigh stays finite)
DegenerateTables ==
    UNION {{WithBeta(tab, 0, v) : v \in {FZero, Inf(FALSE), FNaN}}
               \cup {WithBeta(tab, i, FZero) : i \in 1..(Len(tab) - 1)} :
           tab \in ProviderTables \ {<<>>}}

QuadTables == ProviderTables \cup DegenerateTables

QuadOrders == (-1)..(MaxQuad + 1)

\* the rule asked for has nodes q * sqrt(r)
QuadExact(recursion_coeffs, N) ==
    (0 < N /\ N <= Len(recursion_coeffs))
        => EighExact(JacobiMatrix(recursion_coeffs, N))

CallGaussQuadrature ==
    /\ Idle
    /\ UNCHANGED <<heap, local>>
    /\ \E recursion_coeffs \in QuadTables, N \in QuadOrders :
        /\ QuadExact(recursion_coeffs, N)
        /\ fn' = "gauss_quadrature"
        /\ args' = [recursion_coeffs |-> recursion_coeffs, N |-> N]
        /\ ret' = gauss_quadrature(recursion_coeffs, N)

NextQuadrature == CallGaussQuadrature

SpecQuadrature == Init /\ [][NextQuadrature]_vars

(* -------------------- properties of gauss_quadrature ------------------- *)

QuadRows == Len(args.recursion_coeffs)

\* C11: gauss_quadrature raises, and returns no nodes or weights, whenever
\* N <= 0 or N exceeds the number of rows of the table; for 0 < N <= rows it
\* returns exactly N nodes and N weights.
C11_OrderChecked ==
    fn = "gauss_quadrature" =>
        /\ (args.N <= 0 \/ args.N > QuadRows) => ret = AssertionError
        /\ (0 < args.N /\ args.N <= QuadRows) =>
              /\ ret.kind = "rule"
              /\ Len(ret.x) = args.N
              /\ Len(ret.w) = args.N

\* order 0 asked of a table that has rows
C11_Witness ==
    /\ fn = "gauss_quadrature"
    /\ args.N = 0 /\ QuadRows = 2
    /\ ret = AssertionError

\* 1/sum_j p_j(x_i)^2 at the returned nodes, before any replacement
C12_Raw ==
    RawWeights(EvaluateAtNodes(ret.x, args.N - 1, args.recursion_coeffs).p)

\* C12: every weight gauss_quadrature returns is finite and >= 0: a weight
\* 1/sum_j p_j(node)^2 that is infinite or NaN comes back as 0, a finite one
\* comes back unchanged, and a call with 0 < N <= rows raises nothing.
C12_WeightsFinite ==
    (fn = "gauss_quadrature" /\ 0 < args.N /\ args.N <= QuadRows) =>
        /\ ret.kind = "rule"
        /\ \A i \in 1..Len(ret.w) :
              /\ ret.w[i].k = "fin" /\ ~RIsNeg(ret.w[i].q)
              /\ ret.w[i] = IF C12_Raw[i].k \in {"inf", "nan"}
                            THEN FZero ELSE C12_Raw[i]

\* beta_0 = inf makes every p_j vanish: the raw weights are 1/0 = inf
C12_Witness ==
    /\ fn = "gauss_quadrature"
    /\ args.N = 2
    /\ ret.kind = "rule"
    /\ C12_Raw[1] = Inf(FALSE)
    /\ ret.w[1] = FZero

\* a raw weight that is NaN (0/0 at a zero off-diagonal entry) comes back 0
C12_WitnessNaN ==
    /\ fn = "gauss_quadrature"
    /\ ret.kind = "rule"
    /\ \E i \in 1..Len(ret.w) : C12_Raw[i] = FNaN /\ ret.w[i] = FZero

RECURSIVE FPow(_, _)
FPow(x, k) == IF k = 0 THEN FOne ELSE FMul(x, FPow(x, k - 1))

\* sum_i w_i x_i^k of the returned rule
Moment(k) == FSum([i \in 1..Len(ret.x) |-> FMul(ret.w[i], FPow(ret.x[i], k))])

\* the table of jacobi_recurrence(rows, alpha=0, beta=0), not normalized
IsLegendreTable ==
    \E rows \in 1..(MaxQuad + 1) :
        args.recursion_coeffs
            = FloatTable(jacobi_recurrence(rows, 0, 0, FALSE).ab)

\* C13: on the table of jacobi_recurrence(rows, 0, 0) the N-node rule of
\* gauss_quadrature integrates x^k for every 0 <= k <= 2N-1 exactly:
\* sum_i w_i x_i^k is 2/(k+1) for even k and 0 for odd k.
C13_Exactness ==
    (/\ fn = "gauss_quadrature"
     /\ IsLegendreTable
     /\ 0 < args.N /\ args.N <= QuadRows) =>
        \A k \in 0..(2 * args.N - 1) :
            Moment(k) = IF k % 2 = 0 THEN FRat(Rat(2, k + 1)) ELSE FZero

\* the three-node Gauss-Legendre rule: nodes -sqrt(3/5), 0, sqrt(3/5)
C13_Witness ==
    /\ fn = "gauss_quadrature"
    /\ IsLegendreTable
    /\ args.N = 3
    /\ ret.kind = "rule"
    /\ ret.x = <<Fin(Rat(-1, 5), 15), FZero, Fin(Rat(1, 5), 15)>>
    /\ ret.w = <<FRat(Rat(5, 9)), FRat(Rat(8, 9)), FRat(Rat(5, 9))>>

(* ---------------------- evaluate_monic_polynomial_1d ------------------- *)

\* lines 314, 317 and 320
MonicStep(x, ab, jj, p) ==
    IF jj = 0 THEN RDiv(One, B(ab, 0))
    ELSE IF jj = 1 THEN RMul(RSub(x, A(ab, 0)), p[1])
    ELSE RSub(RMul(RSub(x, A(ab, jj - 1)), p[jj]),
              RMul(B(ab, jj - 1), p[jj - 1]))

RECURSIVE MonicLoop(_, _, _, _, _)
MonicLoop(x, ab, nmax, jj, p) ==
    IF jj > nmax THEN p
    ELSE MonicLoop(x, ab, nmax, jj + 1, Append(p, MonicStep(x, ab, jj, p)))

\* the function states no assertion: numpy refuses a row the table lacks
evaluate_monic_polynomial_1d(x, nmax, ab) ==
    IF Len(ab) < Max(nmax, 1) THEN IndexError
    ELSE Values("array", [s \in 1..Len(x) |-> MonicLoop(x[s], ab, nmax, 0, <<>>)])

(* ----------------------- arrays and their storage ---------------------- *)
\* heap is the sequence of the arrays allocated so far; the address of an
\* array is its index.  A call is handed the address of the table.  Inside
\* a function a name is bound either to the table (or to a view of it, as
\* ab[:,0] is) or to an array the call allocates (np.zeros, np.empty, the
\* value of an arithmetic expression).  An assignment p[...] = e or
\* p[...] *= e writes into the array p is bound to.

FrameFns ==
    {"evaluate_orthonormal_polynomial_1d",
     "evaluate_orthonormal_polynomial_deriv_1d",
     "evaluate_monic_polynomial_1d",
     "gauss_quadrature",
     "convert_orthonormal_polynomials_to_monomials_1d",
     "convert_orthonormal_recurence_to_three_term_recurence"}

\* the names bound to the table or to a view of it
TableViews(f) ==
    CASE f = "evaluate_orthonormal_polynomial_deriv_1d" -> {"ab", "a", "b"}
      [] f = "gauss_quadrature" -> {"recursion_coeffs", "a", "b"}
      [] f = "convert_orthonormal_recurence_to_three_term_recurence" ->
            {"recursion_coefs"}
      [] OTHER -> {"ab"}

WrittenInPlace_Table(f) == TableViews(f)

\* the names a subscripted or augmented assignment writes through
WrittenInPlace(f) ==
    CASE f = "evaluate_orthonormal_polynomial_1d" -> {"p"}
      [] f = "evaluate_orthonormal_polynomial_deriv_1d" -> {"result", "pd"}
      [] f = "evaluate_monic_polynomial_1d" -> {"p"}
      [] f = "gauss_quadrature" -> {"w"}
      [] f = "convert_orthonormal_polynomials_to_monomials_1d" ->
            {"monomial_coefs"}
      [] f = "convert_orthonormal_recurence_to_three_term_recurence" -> {"abc"}

\* the names of the return statement
Returned(f) ==
    CASE f = "evaluate_orthonormal_polynomial_1d" -> {"p"}
      [] f = "evaluate_orthonormal_polynomial_deriv_1d" -> {"result"}
      [] f = "evaluate_monic_polynomial_1d" -> {"p"}
      [] f = "gauss_quadrature" -> {"x", "w"}
      [] f = "convert_orthonormal_polynomials_to_monomials_1d" ->
            {"monomial_coefs"}
      [] f = "convert_orthonormal_recurence_to_three_term_recurence" -> {"abc"}

Refs(at) == [kind |-> "refs", at |-> at]

\* an array holding val
Stored(val) == [kind |-> "array", val |-> val]

\* what is left in an array by a write the model does not follow
Overwritten == [kind |-> "overwritten"]

\* the heap and the result after f, called on the table at address t, has
\* computed the arrays out (or has raised the error out)
Effect(h, t, f, out) ==
    IF out.kind # "arrays" THEN [heap |-> h, ret |-> out]
    ELSE LET h1 == IF WrittenInPlace(f) \cap TableViews(f) # {}
                   THEN [h EXCEPT ![t] = Overwritten] ELSE h
         IN  IF Returned(f) \cap TableViews(f) # {}
             THEN [heap |-> h1, ret |-> Refs(<<t>>)]
             ELSE [heap |-> h1 \o out.arrays,
                   ret |-> Refs([j \in 1..Len(out.arrays) |-> Len(h1) + j])]

Arrays(seq) ==
    [kind |-> "arrays", arrays |-> [j \in 1..Len(seq) |-> Stored(seq[j])]]

\* the arrays a result of the model stands for
Out(r) ==
    CASE r.kind = "values" -> Arrays(<<r.p>>)
      [] r.kind = "rule" -> Arrays(<<r.x, r.w>>)
      [] r.kind = "monomial_coefs" -> Arrays(<<r.coefs>>)
      [] r.kind = "abc" -> Arrays(<<r.abc>>)
      [] OTHER -> r

(* ------------------------- calls on a stored table --------------------- *)

\* largest number of arrays on the heap at which a call is still made
MaxArrays == 2

FrameTables ==
    {<<<<Zero, One>>, <<Zero, Rat(1, 2)>>>>,
     <<<<Rat(1, 2), Int2Rat(2)>>, <<Int2Rat(-1), Rat(1, 2)>>>>}
FrameSamples == {<<Rat(1, 2), Int2Rat(-1)>>}
FrameDegrees == 0..1
FrameOrders == 1..2

\* the table as the float array gauss_quadrature reads
FloatRows(ab) == [i \in 1..Len(ab) |-> <<FRat(ab[i][1]), FRat(ab[i][2])>>]

\* the caller receives a table from a provider and keeps it at address 1
ReceiveTable ==
    /\ Idle
    /\ heap = <<>>
    /\ \E ab \in FrameTables :
        /\ fn' = "table"
        /\ args' = <<>>
        /\ heap' = <<Stored(ab)>>
        /\ ret' = Refs(<<1>>)
    /\ UNCHANGED local

CanCall ==
    /\ heap # <<>>
    /\ heap[1] # Overwritten
    /\ Len(heap) <= MaxArrays

\* f is called with the arguments a, the table passed by reference, and
\* computes r
FrameCall(f, a, r) ==
    LET e == Effect(heap, 1, f, Out(r))
    IN  /\ fn' = f
        /\ args' = a
        /\ heap' = e.heap
        /\ ret' = e.ret
        /\ UNCHANGED local

FrameEvaluate ==
    /\ CanCall
    /\ \E x \in FrameSamples, nmax \in FrameDegrees, ext \in BOOLEAN :
        FrameCall("evaluate_orthonormal_polynomial_1d",
                  [x |-> x, nmax |-> nmax, ab |-> 1, ext |-> ext],
                  evaluate_orthonormal_polynomial_1d(x, nmax, heap[1].val, ext))

FrameEvaluateDeriv ==
    /\ CanCall
    /\ \E x \in FrameSamples, nmax \in FrameDegrees, ext \in BOOLEAN,
          deriv_order \in FrameOrders :
        FrameCall("evaluate_orthonormal_polynomial_deriv_1d",
                  [x |-> x, nmax |-> nmax, ab |-> 1,
                   deriv_order |-> deriv_order, ext |-> ext],
                  evaluate_orthonormal_polynomial_deriv_1d(
                      x, nmax, heap[1].val, deriv_order, ext))

FrameEvaluateMonic ==
    /\ CanCall
    /\ \E x \in FrameSamples, nmax \in FrameDegrees :
        FrameCall("evaluate_monic_polynomial_1d",
                  [x |-> x, nmax |-> nmax, ab |-> 1],
                  evaluate_monic_polynomial_1d(x, nmax, heap[1].val))

FrameGaussQuadrature ==
    /\ CanCall
    /\ \E N \in FrameOrders :
        /\ QuadExact(FloatRows(heap[1].val), N)
        /\ FrameCall("gauss_quadrature",
                     [recursion_coeffs |-> 1, N |-> N],
                     gauss_quadrature(FloatRows(heap[1].val), N))

FrameConvertToMonomials ==
    /\ CanCall
    /\ \E nmax \in FrameDegrees :
        FrameCall("convert_orthonormal_polynomials_to_monomials_1d",
                  [ab |-> 1, nmax |-> nmax],
                  convert_orthonormal_polynomials_to_monomials_1d(heap[1].val,
                                                                  nmax))

FrameConvertToThreeTerm ==
    /\ CanCall
    /\ FrameCall("convert_orthonormal_recurence_to_three_term_recurence",
                 [recursion_coefs |-> 1],
                 [kind |-> "abc",
                  abc |-> convert_orthonormal_recurence_to_three_term_recurence(
                              heap[1].val)])

NextFrame ==
    \/ ReceiveTable
    \/ FrameEvaluate
    \/ FrameEvaluateDeriv
    \/ FrameEvaluateMonic
    \/ FrameGaussQuadrature
    \/ FrameConvertToMonomials
    \/ FrameConvertToThreeTerm

SpecFrame == Init /\ [][NextFrame]_vars

(* ------------------------ properties of the storage -------------------- *)

\* a step that calls one of the six functions leaves every array that
\* existed before the call as it was, and every address it returns is new
C18_Step ==
    fn' \in FrameFns =>
        /\ Len(heap') >= Len(heap)
        /\ \A i \in 1..Len(heap) : heap'[i] = heap[i]
        /\ ret'.kind = "refs" =>
              \A j \in 1..Len(ret'.at) :
                  ret'.at[j] > Len(heap) /\ ret'.at[j] <= Len(heap')

\* C18: a recurrence table is never mutated after it is returned: each of
\* evaluate_orthonormal_polynomial_1d, evaluate_orthonormal_polynomial_deriv_1d,
\* evaluate_monic_polynomial_1d, gauss_quadrature,
\* convert_orthonormal_polynomials_to_monomials_1d and
\* convert_orthonormal_recurence_to_three_term_recurence leaves every entry
\* of the table it is passed unchanged and returns newly allocated arrays,
\* never a cached or shared one.
C18_TableUntouched == [][C18_Step]_vars

\* the same call made twice: equal values in two different arrays, the
\* table still in place
C18_Witness ==
    /\ fn = "evaluate_orthonormal_polynomial_1d"
    /\ Len(heap) = 3
    /\ heap[1].val \in FrameTables
    /\ heap[2] = heap[3]
    /\ ret = Refs(<<3>>)

(* --------------------------- induced sampling -------------------------- *)
\* pyapprox/induced_sampling.py is not part of the source tree.  Its
\* samplers are modelled from their description and from the calls made by
\* tests/test_induced_sampling.py.  A sampler is a loop: local holds its
\* program counter and its local variables, and one step of the model is
\* one pass through the loop.  A random draw is a choice from a small set.

\* largest number of samples an adaptive sampler is followed to
MaxSamples == 3
\* largest number of samples asked of the rejection sampler
MaxCount == 2

\* the recurrence table of the one-dimensional expansion: p_0 = 1, p_1 = 2x
ExpansionTable == <<<<Zero, One>>, <<Zero, Rat(1, 2)>>>>

\* the canonical points a sample is drawn from
SamplerPoints == {Int2Rat(-1), Zero, One}

\* the row of the basis matrix at x for the indices 0..degree
BasisRow(x, degree) == PureArrayEvaluate(<<x>>, degree, ExpansionTable)[1]

RECURSIVE RSum(_)
RSum(seq) == IF seq = <<>> THEN Zero ELSE RAdd(Head(seq), RSum(Tail(seq)))

\* sum_i p_i(x)^2
SquaredRowNorm(x, degree) ==
    RSum([i \in 1..(degree + 1) |->
             RMul(BasisRow(x, degree)[i], BasisRow(x, degree)[i])])

\* entry (i,j) of the Gram matrix of the preconditioned basis matrix, whose
\* row m is p(x_m) / sqrt(sum_i p_i(x_m)^2)
Gram(samples, degree, i, j) ==
    RSum([m \in 1..Len(samples) |->
             RDiv(RMul(BasisRow(samples[m], degree)[i],
                       BasisRow(samples[m], degree)[j]),
                  SquaredRowNorm(samples[m], degree))])

\* compute_preconditioned_basis_matrix_condition_number(...) < cond_tol.
\* The condition number is sqrt(lmax/lmin) of the Gram matrix; for one
\* basis function it is 1, for two lmax/lmin < T (T = cond_tol^2) is
\* det > 0, T > 1 and (tr^2 - 4 det)(1+T)^2 < (T-1)^2 tr^2.
ConditionNumberBelow(samples, degree, cond_tol) ==
    IF samples = <<>> THEN FALSE
    ELSE IF degree = 0 THEN RLess(One, cond_tol)
    ELSE LET tr == RAdd(Gram(samples, degree, 1, 1), Gram(samples, degree, 2, 2))
             det == RSub(RMul(Gram(samples, degree, 1, 1),
                              Gram(samples, degree, 2, 2)),
                         RMul(Gram(samples, degree, 1, 2),
                              Gram(samples, degree, 1, 2)))
             T == RMul(cond_tol, cond_tol)
         IN  /\ RLess(Zero, det)
             /\ RLess(One, T)
             /\ RLess(RMul(RSub(RMul(tr, tr), RMul(Int2Rat(4), det)),
                           RMul(RAdd(One, T), RAdd(One, T))),
                      RMul(RMul(RSub(T, One), RSub(T, One)), RMul(tr, tr)))

KeepSampling_Never(samples, degree, cond_tol) == FALSE

\* the loop test of the two adaptive entry points
KeepSampling(samples, degree, cond_tol) ==
    ~ConditionNumberBelow(samples, degree, cond_tol)

StartSamples_Fresh(existing_samples) == <<>>

\* the sample array increment_induced_samples_migliorati starts from
StartSamples(existing_samples) == existing_samples

Samples(samples) == [kind |-> "samples", samples |-> samples]

CondTols == {One, Int2Rat(2), Int2Rat(10)}

Adaptive ==
    {"generate_induced_samples_migliorati_tolerance",
     "increment_induced_samples_migliorati"}

\* generate_induced_samples_migliorati_tolerance(expansion, cond_tol): the
\* expansion holds the indices 0..degree
CallGenerateTolerance ==
    /\ Idle
    /\ local = NoLocals
    /\ heap = <<>>
    /\ \E degree \in 0..1, cond_tol \in CondTols :
        /\ fn' = "generate_induced_samples_migliorati_tolerance"
        /\ args' = [degree |-> degree, cond_tol |-> cond_tol]
        /\ local' = [pc |-> "loop", samples |-> <<>>, degree |-> degree,
                     cond_tol |-> cond_tol]
    /\ UNCHANGED <<ret, heap>>

\* increment_induced_samples_migliorati(expansion, cond_tol,
\* existing_samples, existing_indices, new_indices), called with the samples
\* the previous adaptive call returned; the indices grow to 0..degree
CallIncrement ==
    /\ fn \in Adaptive
    /\ local.pc = "returned"
    /\ \E degree \in local.degree..1, cond_tol \in CondTols :
        /\ fn' = "increment_induced_samples_migliorati"
        /\ args' = [cond_tol |-> cond_tol, existing_samples |-> ret.samples,
                    existing_degree |-> local.degree, degree |-> degree]
        /\ local' = [pc |-> "loop", samples |-> StartSamples(ret.samples),
                     degree |-> degree, cond_tol |-> cond_tol]
    /\ UNCHANGED <<ret, heap>>

\* one pass of the loop: the bound is not met, one more sample is drawn
\* and appended
AdaptiveDraw ==
    /\ fn \in Adaptive
    /\ local.pc = "loop"
    /\ KeepSampling(local.samples, local.degree, local.cond_tol)
    /\ Len(local.samples) < MaxSamples
    /\ \E x \in SamplerPoints :
        local' = [local EXCEPT !.samples = Append(local.samples, x)]
    /\ UNCHANGED <<fn, args, ret, heap>>

\* the loop test fails: the accumulated samples are returned
AdaptiveReturn ==
    /\ fn \in Adaptive
    /\ local.pc = "loop"
    /\ ~KeepSampling(local.samples, local.degree, local.cond_tol)
    /\ local' = [local EXCEPT !.pc = "returned"]
    /\ ret' = Samples(local.samples)
    /\ UNCHANGED <<fn, args, heap>>

(* -------------------- random_induced_measure_sampling ------------------ *)
\* A candidate is a tuple of num_vars coordinates, each 0 or 1.  A density
\* is the product over the coordinates of a function given as its pair of
\* values <<at 0, at 1>>.

Coordinates == 0..1

Candidates1D(num_vars) == [1..num_vars -> Coordinates]

RECURSIVE RProd(_)
RProd(seq) == IF seq = <<>> THEN One ELSE RMul(Head(seq), RProd(Tail(seq)))

Density(d, x) == RProd([i \in 1..Len(x) |-> d[x[i] + 1]])

\* target densities: one that vanishes everywhere, the uniform one and a
\* skewed one
TargetDensities ==
    {<<Zero, Zero>>, <<Rat(1, 2), Rat(1, 2)>>, <<Rat(1, 4), Rat(3, 4)>>}
\* the proposal: uniform, or all its mass on the coordinate 1
ProposalDensities == {<<Rat(1, 2), Rat(1, 2)>>, <<Zero, One>>}
EnvelopeFactors == {One, Int2Rat(2)}
\* the values of the uniform draw on [0, 1)
Uniforms == {Zero, Rat(1, 2), Rat(9, 10)}

\* generate_proposal_samples draws where the proposal has mass
ProposalSupport(proposal, num_vars) ==
    {x \in Candidates1D(num_vars) : ~RIsZero(Density(proposal, x))}

Accept_Always(u, target_val, proposal_val, envelope_factor) == TRUE

\* u < target(x) / (envelope_factor * proposal(x)), from the two densities
\* evaluated at the candidate x
Accept(u, target_val, proposal_val, envelope_factor) ==
    RLess(u, RDiv(target_val, RMul(envelope_factor, proposal_val)))

CallRandomInducedMeasureSampling ==
    /\ Idle
    /\ local = NoLocals
    /\ heap = <<>>
    /\ \E num_samples \in 0..MaxCount, num_vars \in 1..2,
          target \in TargetDensities, proposal \in ProposalDensities,
          envelope_factor \in EnvelopeFactors :
        /\ fn' = "random_induced_measure_sampling"
        /\ args' = [num_samples |-> num_samples, num_vars |-> num_vars,
                    target |-> target, proposal |-> proposal,
                    envelope_factor |-> envelope_factor]
        /\ local' = [pc |-> "loop", samples |-> <<>>, us |-> <<>>,
                     last |-> <<>>]
    /\ UNCHANGED <<ret, heap>>

\* one pass of the loop: a candidate x and a uniform u are drawn; x is
\* kept when accepted.  us[j] is the draw that went with samples[j], and
\* last is the latest candidate, its draw and what was decided.
RejectionDraw ==
    /\ fn = "random_induced_measure_sampling"
    /\ local.pc = "loop"
    /\ Len(local.samples) < args.num_samples
    /\ \E x \in ProposalSupport(args.proposal, args.num_vars), u \in Uniforms :
        \E target_val \in {Density(args.target, x)},
           proposal_val \in {Density(args.proposal, x)} :
        LET kept == Accept(u, target_val, proposal_val, args.envelope_factor)
        IN  local' = [local EXCEPT
                        !.samples = IF kept THEN Append(local.samples, x)
                                    ELSE local.samples,
                        !.us = IF kept THEN Append(local.us, u) ELSE local.us,
                        !.last = <<[x |-> x, u |-> u, kept |-> kept]>>]
    /\ UNCHANGED <<fn, args, ret, heap>>

\* num_samples candidates have been accepted
RejectionReturn ==
    /\ fn = "random_induced_measure_sampling"
    /\ local.pc = "loop"
    /\ ~(Len(local.samples) < args.num_samples)
    /\ local' = [local EXCEPT !.pc = "returned"]
    /\ ret' = Samples(local.samples)
    /\ UNCHANGED <<fn, args, heap>>

(* -------------------------- christoffel_function ----------------------- *)
\* pyapprox.polynomial_sampling.christoffel_function is not part of the
\* source tree.  test_induced_sampling.py multiplies the density by
\* christoffel_function(x, basis_matrix, True) to get the induced density
\* (lines 99-102) and asserts that it sums to 1 against the weights of the
\* measure (lines 118-120): the normalized value is the sum of the squared
\* basis functions divided by their number.

\* the basis matrix of the expansion with the table ab at the points x
BasisMatrix(x, ab) == EvaluateAtNodes(x, Len(ab) - 1, ab).p

christoffel_function(x, ab, normalize) ==
    [q \in 1..Len(x) |->
        FDiv(SumOfSquares(BasisMatrix(x, ab)[q]),
             FRat(Int2Rat(IF normalize THEN Len(ab) ELSE 1)))]

\* largest number of mass points of the discrete measure
MaxMasses == 3

\* the mass points 0..Ntrials-1 of the uniform discrete measure, which
\* discrete_chebyshev_recurrence is orthonormal for
MassPoints(Ntrials) == [q \in 1..Ntrials |-> FRat(Int2Rat(q - 1))]

CallChristoffelFunction ==
    /\ Idle
    /\ local = NoLocals
    /\ heap = <<>>
    /\ \E Ntrials \in 1..MaxMasses :
         \E k \in 1..Ntrials, normalize \in BOOLEAN :
            /\ fn' = "christoffel_function"
            /\ args' = [Ntrials |-> Ntrials, k |-> k, normalize |-> normalize]
            /\ ret' = Values("array",
                        christoffel_function(
                            MassPoints(Ntrials),
                            FloatTable(discrete_chebyshev_recurrence(k, Ntrials).ab),
                            normalize))
    /\ UNCHANGED <<heap, local>>

NextSampler ==
    \/ CallGenerateTolerance
    \/ CallIncrement
    \/ AdaptiveDraw
    \/ AdaptiveReturn
    \/ CallRandomInducedMeasureSampling
    \/ RejectionDraw
    \/ RejectionReturn
    \/ CallChristoffelFunction

SpecSampler == Init /\ [][NextSampler]_vars

\* the rejection loop makes the pass it can make, and returns when it can:
\* the program is sequential and nothing suspends it
SpecSamplerFair ==
    SpecSampler /\ WF_vars(RejectionDraw) /\ WF_vars(RejectionReturn)

(* ---------------------- properties of the samplers --------------------- *)

\* C14: both adaptive entry points return only when the condition number
\* of the preconditioned basis matrix of all the accumulated samples is
\* below cond_tol; while it is not, another sample is drawn and nothing is
\* returned.
C14_ConditionOnReturn ==
    (fn \in Adaptive /\ local.pc = "returned") =>
        /\ ret.samples = local.samples
        /\ ConditionNumberBelow(ret.samples, args.degree, args.cond_tol)

\* two samples at -1 and 1 give the condition number 2, which is not below
\* cond_tol = 2: a third sample was drawn before the return
C14_Witness ==
    /\ fn = "generate_induced_samples_migliorati_tolerance"
    /\ local.pc = "returned"
    /\ args.degree = 1 /\ args.cond_tol = Int2Rat(2)
    /\ ret.samples = <<Int2Rat(-1), One, Zero>>
    /\ ~ConditionNumberBelow(<<Int2Rat(-1), One>>, 1, Int2Rat(2))

\* C15: the array increment_induced_samples_migliorati returns has at least
\* as many columns as existing_samples, and its first columns are those of
\* existing_samples, in the same order.
C15_OnlyAppends ==
    (fn = "increment_induced_samples_migliorati" /\ local.pc = "returned") =>
        /\ Len(ret.samples) >= Len(args.existing_samples)
        /\ SubSeq(ret.samples, 1, Len(args.existing_samples))
              = args.existing_samples

\* one existing sample, two more appended for the larger index set
C15_Witness ==
    /\ fn = "increment_induced_samples_migliorati"
    /\ local.pc = "returned"
    /\ args.existing_degree = 0 /\ args.degree = 1
    /\ Len(args.existing_samples) = 1
    /\ Len(ret.samples) = 3

\* target(x) / (envelope_factor * proposal(x)) of the call
C16_Ratio(x) ==
    RDiv(Density(args.target, x),
         RMul(args.envelope_factor, Density(args.proposal, x)))

\* C16: random_induced_measure_sampling returns exactly num_samples columns
\* of num_vars entries; a candidate x is kept exactly when its uniform draw
\* u is below target(x)/(envelope_factor*proposal(x)); the loop returns
\* only once num_samples candidates were kept, and only kept ones.
C16_AcceptReject ==
    fn = "random_induced_measure_sampling" =>
        /\ Len(local.samples) <= args.num_samples
        /\ \A j \in 1..Len(local.samples) :
              /\ DOMAIN local.samples[j] = 1..args.num_vars
              /\ RLess(local.us[j], C16_Ratio(local.samples[j]))
        /\ \A i \in 1..Len(local.last) :
              local.last[i].kept
                  <=> RLess(local.last[i].u, C16_Ratio(local.last[i].x))
        /\ local.pc = "returned" =>
              /\ ret.samples = local.samples
              /\ Len(ret.samples) = args.num_samples

\* two samples of two coordinates returned
C16_Witness ==
    /\ fn = "random_induced_measure_sampling"
    /\ local.pc = "returned"
    /\ args.num_samples = 2 /\ args.num_vars = 2
    /\ args.target = <<Rat(1, 4), Rat(3, 4)>>
    /\ Len(ret.samples) = 2

\* a candidate was rejected and the loop goes on with one sample kept
C16_WitnessRejected ==
    /\ fn = "random_induced_measure_sampling"
    /\ local.pc = "loop"
    /\ Len(local.samples) = 1
    /\ ~local.last[1].kept

\* the fatal error of a loop that gave up
ConvergenceFailure == [kind |-> "ConvergenceFailure"]

\* the rejection loop cannot reach its target: the target density vanishes
\* at every candidate, so no candidate is ever accepted
C17_Starved ==
    /\ fn = "random_induced_measure_sampling"
    /\ local.pc = "loop"
    /\ args.num_samples > 0
    /\ args.target = <<Zero, Zero>>

\* C17: a sampling loop that cannot reach its target does not iterate for
\* ever and returns no shorter sample set: after a bounded number of
\* re-draws it ends in a fatal error.
C17_GivesUp == C17_Starved ~> (ret = ConvergenceFailure)

C21_Basis ==
    BasisMatrix(MassPoints(args.Ntrials),
                FloatTable(discrete_chebyshev_recurrence(args.k, args.Ntrials).ab))

\* sum_i phi_i(x_q)^2
C21_SquareSum(q) ==
    FSum([i \in 1..args.k |-> FMul(C21_Basis[q][i], C21_Basis[q][i])])

C21_Scale == FRat(Int2Rat(IF args.normalize THEN args.k ELSE 1))

At(abc, i) == abc[i + 1][1]
Bt(abc, i) == abc[i + 1][2]
Ct(abc, i) == abc[i + 1][3]

ThreeTermStep_NoThirdTerm(abc, x, jj, p) ==
    IF jj = 0 THEN At(abc, 0)
    ELSE RMul(RSub(RMul(At(abc, jj), x), Bt(abc, jj)), p[jj])

\* lines 566, 569 and 572
ThreeTermStep(abc, x, jj, p) ==
    IF jj = 0 THEN At(abc, 0)
    ELSE IF jj = 1
    THEN RMul(RSub(RMul(At(abc, 1), x), Bt(abc, 1)), p[1])
    ELSE RSub(RMul(RSub(RMul(At(abc, jj), x), Bt(abc, jj)), p[jj]),
              RMul(Ct(abc, jj), p[jj - 1]))

RECURSIVE ThreeTermLoop(_, _, _, _, _)
ThreeTermLoop(abc, x, nmax, jj, p) ==
    IF jj > nmax THEN p
    ELSE ThreeTermLoop(abc, x, nmax, jj + 1,
                       Append(p, ThreeTermStep(abc, x, jj, p)))

\* lines 562-574
evaluate_three_term_recurrence_polynomial_1d(abc, nmax, x) ==
    IF ~(nmax < Len(abc)) THEN AssertionError
    ELSE Values("array",
                [s \in 1..Len(x) |-> ThreeTermLoop(abc, x[s], nmax, 0, <<>>)])

(* -------------------- calls on the other encodings --------------------- *)

\* largest number of rows of a table handed to these evaluators
MaxTerms == 3

\* rows of the tables: beta is not zero, and is 1 in row 0 of a table in
\* probability mode
EncodingRows ==
    {<<al, be>> : al \in AlphaVals, be \in {One, Int2Rat(2), Rat(-1, 2)}}
EncodingTables == UNION {[1..K -> EncodingRows] : K \in 0..MaxTerms}

\* the samples 0, 1, .., MaxTerms + 1
Grid == [s \in 1..(MaxTerms + 2) |-> Int2Rat(s - 1)]
EncodingSamples == {<<Rat(1, 2)>>, Grid}

CallEvaluateMonic ==
    /\ Idle
    /\ UNCHANGED <<heap, local>>
    /\ \E x \in EncodingSamples, nmax \in 0..MaxTerms, ab \in EncodingTables :
        /\ fn' = "evaluate_monic_polynomial_1d"
        /\ args' = [x |-> x, nmax |-> nmax, ab |-> ab]
        /\ ret' = evaluate_monic_polynomial_1d(x, nmax, ab)

\* the table is converted and the converted table evaluated
CallEvaluateThreeTerm ==
    /\ Idle
    /\ UNCHANGED <<heap, local>>
    /\ \E x \in EncodingSamples, nmax \in 0..MaxTerms, ab \in EncodingTables :
        /\ fn' = "evaluate_three_term_recurrence_polynomial_1d"
        /\ args' = [x |-> x, nmax |-> nmax, ab |-> ab]
        /\ ret' = evaluate_three_term_recurrence_polynomial_1d(
                      convert_orthonormal_recurence_to_three_term_recurence(ab),
                      nmax, x)

NextEncodings ==
    \/ CallEvaluateMonic
    \/ CallEvaluateThreeTerm

SpecEncodings == Init /\ [][NextEncodings]_vars

(* -------------------- properties of the other encodings ---------------- *)

\* the forward differences of a sequence of values
Diff(seq) == [i \in 1..(Len(seq) - 1) |-> RSub(seq[i + 1], seq[i])]

RECURSIVE DiffN(_, _)
DiffN(seq, n) == IF n = 0 THEN seq ELSE DiffN(Diff(seq), n - 1)

\* column j of the returned array
C22_Column(j) == [s \in 1..Len(ret.p) |-> ret.p[s][j + 1]]

\* C22: evaluate_monic_polynomial_1d returns monic polynomials: with at
\* least nmax+1 rows, column j is a polynomial of degree j in x whose
\* coefficient of x^j is 1.  On the samples 0, 1, 2, .. that is: the
\* differences of order j of the column are all j!, those of order j+1
\* are all 0.
C22_Claim ==
    (/\ fn = "evaluate_monic_polynomial_1d"
     /\ args.x = Grid
     /\ Len(args.ab) >= args.nmax + 1) =>
        /\ ret.kind = "values"
        /\ \A j \in 0..args.nmax :
              /\ \A i \in 1..(Len(Grid) - j) :
                    DiffN(C22_Column(j), j)[i] = Int2Rat(Factorial(j))
              /\ \A i \in 1..(Len(Grid) - j - 1) :
                    DiffN(C22_Column(j), j + 1)[i] = Zero

\* C24: the three-term encoding evaluates to the same values: for a table
\* ab with non-zero beta and nmax < rows, evaluating the converted table
\* with evaluate_three_term_recurrence_polynomial_1d gives, column for
\* column, what evaluate_orthonormal_polynomial_1d gives on ab.
C24_SameValues ==
    (/\ fn = "evaluate_three_term_recurrence_polynomial_1d"
     /\ args.nmax < Len(args.ab)) =>
        /\ ret.kind = "values"
        /\ \A ext \in BOOLEAN :
              ret.p = evaluate_orthonormal_polynomial_1d(
                          args.x, args.nmax, args.ab, ext).p

\* three columns on a table whose rows all differ, at five samples
C24_Witness ==
    /\ fn = "evaluate_three_term_recurrence_polynomial_1d"
    /\ args.nmax = 2
    /\ args.x = Grid
    /\ args.ab = <<<<Int2Rat(-1), Int2Rat(2)>>, <<Rat(1, 2), Rat(-1, 2)>>,
                   <<Int2Rat(-1), One>>>>
    /\ ret.kind = "values"
    /\ ret.p[2] = <<Rat(1, 2), Int2Rat(-2), Rat(-3, 4)>>

(* ------------------ cvar_regression.py: value_at_risk ------------------ *)
\* samples is a sequence of rationals; weights is None or an array of
\* rationals.

NoWeights == [kind |-> "None"]
WeightArray(ww) == [kind |-> "array", val |-> ww]
UnboundLocalError == [kind |-> "UnboundLocalError"]

\* np.ones(num_samples) when weights is None (lines 37-38 and 81-82)
DefaultWeights(weights, num_samples) ==
    IF weights = NoWeights THEN [i \in 1..num_samples |-> One]
    ELSE weights.val

\* np.argsort(samples): the positions of the samples in ascending order,
\* equal samples in the order they have (the sort of a short array is an
\* insertion sort)
Argsort(samples) ==
    CHOOSE I \in [1..Len(samples) -> 1..Len(samples)] :
        /\ \A i, k \in 1..Len(samples) : i # k => I[i] # I[k]
        /\ \A i \in 1..(Len(samples) - 1) :
              \/ RLess(samples[I[i]], samples[I[i + 1]])
              \/ (samples[I[i]] = samples[I[i + 1]] /\ I[i] < I[i + 1])

\* samples[I]
Take(arr, I) == [i \in 1..Len(I) |-> arr[I[i]]]

\* ww.cumsum()
RECURSIVE Cumsum(_, _)
Cumsum(ww, i) == IF i = 0 THEN Zero ELSE RAdd(Cumsum(ww, i - 1), ww[i])

\* ecdf = ww.cumsum(); ecdf /= ecdf[-1]  (lines 46-47); the weights sum to
\* a positive number
Ecdf(ww) == [i \in 1..Len(ww) |-> RDiv(Cumsum(ww, i), Cumsum(ww, Len(ww)))]

\* lines 35-49; index counts from 0
value_at_risk(samples, alpha, weights, samples_sorted) ==
    IF ~(RLess(Zero, alpha) /\ RLess(alpha, One)) THEN AssertionError
    ELSE LET num_samples == Len(samples)
             w == DefaultWeights(weights, num_samples)
             I == Argsort(samples)
             xx == IF samples_sorted THEN samples ELSE Take(samples, I)
             ww == IF samples_sorted THEN w ELSE Take(w, I)
             ecdf == Ecdf(ww)
             hits == {i \in 1..num_samples : ~RLess(ecdf[i], alpha)}
         IN  IF num_samples = 0 \/ hits = {} THEN IndexError
             ELSE LET index == CHOOSE i \in hits : \A k \in hits : i <= k
                  IN  [kind |-> "var", VaR |-> xx[index], index |-> index - 1]

(* ---------------------- conditional_value_at_risk ---------------------- *)

\* np.sum((xx[index+1:]-VaR)*ww[index+1:])
RECURSIVE Excess(_, _, _, _)
Excess(xx, ww, VaR, first) ==
    IF first > Len(xx) THEN Zero
    ELSE RAdd(RMul(RSub(xx[first], VaR), ww[first]),
              Excess(xx, ww, VaR, first + 1))

\* xx and ww are bound only in the branch of lines 84-86
SortedBound(samples_sorted) == ~samples_sorted

\* lines 78-92
conditional_value_at_risk(samples, alpha, weights, samples_sorted, return_var) ==
    \* samples.squeeze() of one sample is 0-dimensional: it has no shape[0]
    IF Len(samples) = 1 THEN IndexError
    ELSE IF ~SortedBound(samples_sorted) THEN UnboundLocalError
    ELSE LET num_samples == Len(samples)
             w == DefaultWeights(weights, num_samples)
             I == Argsort(samples)
             xx == IF samples_sorted THEN samples ELSE Take(samples, I)
             ww == IF samples_sorted THEN w ELSE Take(w, I)
             v == value_at_risk(xx, alpha, WeightArray(ww), TRUE)
         IN  IF v.kind # "var" THEN v
             ELSE LET CVaR ==
                          RAdd(v.VaR,
                               RMul(RDiv(One, RMul(RSub(One, alpha),
                                                   Int2Rat(num_samples))),
                                    Excess(xx, ww, v.VaR, v.index + 2)))
                  IN  IF return_var
                      THEN [kind |-> "cvar_var", CVaR |-> CVaR, VaR |-> v.VaR]
                      ELSE [kind |-> "cvar", CVaR |-> CVaR]

(* -------------- cvar_importance_sampling_biasing_density --------------- *)
\* A point x is one of CvarPoints; pdf and function are callables, given by
\* their values at the points (element x + 1 is the value at x).  The
\* values of function and VaR are integers, the others are rationals.

CvarPoints == 0..2

\* the factor of line 497 or of line 498
BiasingFactor_Swapped(y, VaR, beta, tau) ==
    IF y >= VaR THEN RDiv(beta, tau)
    ELSE RDiv(RSub(One, beta), RSub(One, tau))

\* I = np.where(y<VaR)[0] is scaled by beta/tau, J = np.where(y>=VaR)[0]
\* by (1-beta)/(1-tau)  (lines 495-498)
BiasingFactor(y, VaR, beta, tau) ==
    IF y < VaR THEN RDiv(beta, tau)
    ELSE RDiv(RSub(One, beta), RSub(One, tau))

\* lines 488-499, for x an array of points
cvar_importance_sampling_biasing_density(pdf, function, beta, VaR, tau, x) ==
    IF RIsZero(tau) \/ tau = One THEN ZeroDivisionError
    ELSE [kind |-> "vals",
          vals |-> [q \in 1..Len(x) |->
                       RMul(pdf[x[q] + 1],
                            BiasingFactor(function[x[q] + 1], VaR, beta, tau))]]

(* --- generate_samples_from_cvar_importance_sampling_biasing_density ---- *)

\* np.where(cond)[0]: the positions, counted from 0, in ascending order
RECURSIVE Where(_, _)
Where(flags, i) ==
    IF i > Len(flags) THEN <<>>
    ELSE IF flags[i] THEN <<i - 1>> \o Where(flags, i + 1)
    ELSE Where(flags, i + 1)

\* an element of np.empty that was never assigned: no point, and never read
Unwritten == -1

\* samples[:,cols[cnt:cnt+n]] = candidate_samples[:,rows[:n]]
RECURSIVE Assign(_, _, _, _, _, _)
Assign(samples, cols, cnt, candidate_samples, rows, n) ==
    IF n = 0 THEN samples
    ELSE Assign([samples EXCEPT ![cols[cnt + n] + 1] =
                     candidate_samples[rows[n] + 1]],
                cols, cnt, candidate_samples, rows, n - 1)

\* the number of assignments each column of samples received
Writes(writes, cols, cnt, n) ==
    [c \in 1..Len(writes) |->
        writes[c] + Cardinality({i \in (cnt + 1)..(cnt + n) : cols[i] + 1 = c})]

\* vals = function(candidate_samples)
FunctionVals(function, candidate_samples) ==
    [i \in 1..Len(candidate_samples) |-> function[candidate_samples[i] + 1]]

BelowVaR_OrEqual(v, VaR) == v <= VaR

\* vals<VaR of line 552 (and r<beta is the same test on the uniform draws)
BelowVaR(v, VaR) == v < VaR

QuotasFull_Never(Icnt, Ir, Jcnt, Jr) == FALSE

\* the test of line 560
QuotasFull(Icnt, Ir, Jcnt, Jr) == Icnt = Len(Ir) /\ Jcnt = Len(Jr)

(* ---------------------- calls of cvar_regression.py -------------------- *)

\* largest number of samples handed to the risk measures
MaxRisk == 3
\* largest number of samples asked of the biasing sampler
MaxDraws == 2

RiskValues == {Int2Rat(-1), Zero, Int2Rat(2)}
RiskSamples == UNION {[1..n -> RiskValues] : n \in 1..MaxRisk}
RiskWeights(n) == {NoWeights, WeightArray([i \in 1..n |-> Int2Rat(i)])}
Alphas == {Rat(1, 2), Rat(9, 10), One}

CallValueAtRisk ==
    /\ Idle
    /\ UNCHANGED <<heap, local>>
    /\ \E samples \in RiskSamples, alpha \in Alphas, samples_sorted \in BOOLEAN :
        \E weights \in RiskWeights(Len(samples)) :
            /\ fn' = "value_at_risk"
            /\ args' = [samples |-> samples, alpha |-> alpha,
                        weights |-> weights, samples_sorted |-> samples_sorted]
            /\ ret' = value_at_risk(samples, alpha, weights, samples_sorted)

CallConditionalValueAtRisk ==
    /\ Idle
    /\ UNCHANGED <<heap, local>>
    /\ \E samples \in RiskSamples, alpha \in Alphas, samples_sorted \in BOOLEAN,
          return_var \in BOOLEAN :
        \E weights \in RiskWeights(Len(samples)) :
            /\ fn' = "conditional_value_at_risk"
            /\ args' = [samples |-> samples, alpha |-> alpha,
                        weights |-> weights, samples_sorted |-> samples_sorted,
                        return_var |-> return_var]
            /\ ret' = conditional_value_at_risk(samples, alpha, weights,
                                                samples_sorted, return_var)

\* the values of pdf and of function at the points 0, 1, 2
CvarPdfs == {<<Rat(1, 2), Rat(1, 4), Rat(1, 4)>>}
CvarFunctions == {<<0, 1, 2>>, <<2, 0, 2>>}
CvarVaRs == {1, 3}
CvarBetas == {Zero, Rat(1, 2), One}
CvarTaus == {Rat(1, 4), Rat(1, 2), One}
CvarArrays == UNION {[1..n -> CvarPoints] : n \in 1..MaxDraws}

CallBiasingDensity ==
    /\ Idle
    /\ UNCHANGED <<heap, local>>
    /\ \E pdf \in CvarPdfs, function \in CvarFunctions, beta \in CvarBetas,
          VaR \in CvarVaRs, tau \in CvarTaus, x \in CvarArrays :
        /\ fn' = "cvar_importance_sampling_biasing_density"
        /\ args' = [pdf |-> pdf, function |-> function, beta |-> beta,
                    VaR |-> VaR, tau |-> tau, x |-> x]
        /\ ret' = cvar_importance_sampling_biasing_density(
                      pdf, function, beta, VaR, tau, x)

\* generate_candidate_samples(nsamples)
CandidateBatches(nsamples) == [1..nsamples -> CvarPoints]

\* lines 541-548: the first batch, the uniform draws and their split
CallGenerateBiased ==
    /\ Idle
    /\ local = NoLocals
    /\ heap = <<>>
    /\ \E function \in CvarFunctions, beta \in CvarBetas, VaR \in CvarVaRs,
          nsamples \in 0..MaxDraws :
        \E candidate_samples \in CandidateBatches(nsamples),
           r \in [1..nsamples -> Uniforms] :
            /\ fn' = "generate_samples_from_cvar_importance_sampling_biasing_density"
            /\ args' = [function |-> function, beta |-> beta, VaR |-> VaR,
                        nsamples |-> nsamples]
            /\ local' = [pc |-> "loop",
                         candidate_samples |-> candidate_samples,
                         samples |-> [c \in 1..nsamples |-> Unwritten],
                         writes |-> [c \in 1..nsamples |-> 0],
                         r |-> r,
                         Ir |-> Where([c \in 1..nsamples |-> RLess(r[c], beta)], 1),
                         Jr |-> Where([c \in 1..nsamples |-> ~RLess(r[c], beta)], 1),
                         Icnt |-> 0, Jcnt |-> 0]
    /\ UNCHANGED <<ret, heap>>

\* one pass of the loop of lines 549-562: the candidates of the batch are
\* split, the free columns of each region are filled, and either the loop
\* is left and the samples are returned or a new batch is drawn
BiasedPass ==
    /\ fn = "generate_samples_from_cvar_importance_sampling_biasing_density"
    /\ local.pc = "loop"
    /\ LET vals == FunctionVals(args.function, local.candidate_samples)
           I == Where([i \in 1..Len(vals) |-> BelowVaR(vals[i], args.VaR)], 1)
           J == Where([i \in 1..Len(vals) |-> vals[i] >= args.VaR], 1)
           Iend == Min(Len(I), Len(local.Ir) - local.Icnt)
           Jend == Min(Len(J), Len(local.Jr) - local.Jcnt)
           filled == Assign(Assign(local.samples, local.Ir, local.Icnt,
                                   local.candidate_samples, I, Iend),
                            local.Jr, local.Jcnt, local.candidate_samples,
                            J, Jend)
           written == Writes(Writes(local.writes, local.Ir, local.Icnt, Iend),
                             local.Jr, local.Jcnt, Jend)
           done == QuotasFull(local.Icnt + Iend, local.Ir,
                              local.Jcnt + Jend, local.Jr)
       IN  \E batch \in CandidateBatches(args.nsamples) :
             /\ local' = [local EXCEPT
                            !.samples = filled,
                            !.writes = written,
                            !.Icnt = local.Icnt + Iend,
                            !.Jcnt = local.Jcnt + Jend,
                            !.candidate_samples =
                                IF done THEN local.candidate_samples ELSE batch,
                            !.pc = IF done THEN "returned" ELSE "loop"]
             /\ ret' = IF done THEN Samples(filled) ELSE ret
    /\ UNCHANGED <<fn, args, heap>>

NextCvar ==
    \/ CallValueAtRisk
    \/ CallConditionalValueAtRisk
    \/ CallBiasingDensity
    \/ CallGenerateBiased
    \/ BiasedPass

SpecCvar == Init /\ [][NextCvar]_vars

\* the batch holds a candidate of each region that still has free columns
UsefulBatch(l) ==
    /\ l.Icnt < Len(l.Ir) =>
          \E i \in 1..Len(l.candidate_samples) :
              args.function[l.candidate_samples[i] + 1] < args.VaR
    /\ l.Jcnt < Len(l.Jr) =>
          \E i \in 1..Len(l.candidate_samples) :
              args.function[l.candidate_samples[i] + 1] >= args.VaR

\* a pass that leaves the loop or draws such a batch
UsefulPass == BiasedPass /\ (local'.pc = "returned" \/ UsefulBatch(local'))

\* the loop makes the pass it can make (the program is sequential), and
\* generate_candidate_samples keeps drawing batches with a candidate of
\* each region that still has free columns
SpecCvarFair == SpecCvar /\ WF_vars(BiasedPass) /\ WF_vars(UsefulPass)

(* ------------------- properties of cvar_regression.py ------------------ *)

C23_Sampler ==
    "generate_samples_from_cvar_importance_sampling_biasing_density"

\* function(x) of a point
C23_F(x) == args.function[x + 1]

C25_LoopInvariant ==
    fn = C23_Sampler =>
        /\ 0 <= local.Icnt /\ local.Icnt <= Len(local.Ir)
        /\ 0 <= local.Jcnt /\ local.Jcnt <= Len(local.Jr)
        /\ \A c \in 1..args.nsamples : local.writes[c] <= 1
        /\ local.pc = "returned" =>
              /\ local.Icnt + local.Jcnt = args.nsamples
              /\ ret.samples = local.samples
              /\ \A c \in 1..args.nsamples :
                    /\ local.writes[c] = 1
                    /\ ret.samples[c] \in CvarPoints
                    /\ IF RLess(local.r[c], args.beta)
                       THEN C23_F(ret.samples[c]) < args.VaR
                       ELSE C23_F(ret.samples[c]) >= args.VaR

\* two columns, one of each region, filled and returned
C25_Witness ==
    /\ fn = C23_Sampler
    /\ local.pc = "returned"
    /\ args.function = <<0, 1, 2>> /\ args.VaR = 1
    /\ local.Ir = <<1>> /\ local.Jr = <<0>>
    /\ ret.samples = <<2, 0>>

\* each region that still has free columns has a point in it
C26_Feasible ==
    /\ fn = C23_Sampler
    /\ local.pc = "loop"
    /\ local.Icnt < Len(local.Ir) => \E x \in CvarPoints : C23_F(x) < args.VaR
    /\ local.Jcnt < Len(local.Jr) => \E x \in CvarPoints : C23_F(x) >= args.VaR

\* a pass on a batch that holds a candidate of each open region fills at
\* least one more column, and the loop is left in the pass that fills the
\* last one
C26_Progress ==
    (fn = C23_Sampler /\ local.pc = "loop") =>
        /\ (UsefulBatch(local) /\ local.Icnt + local.Jcnt < args.nsamples) =>
              local'.Icnt + local'.Jcnt > local.Icnt + local.Jcnt
        /\ local'.pc = "returned" <=>
              local'.Icnt + local'.Jcnt = args.nsamples

\* C26: the biasing sampler returns, provided the candidate batches keep
\* holding a candidate of each region that still has free columns: every
\* such batch increases Icnt + Jcnt, which nsamples bounds, the loop is left
\* in the pass in which both quotas are full, and a loop in which such
\* batches are possible leads to the return.
C26_Returns ==
    /\ C26_Feasible ~> (fn = C23_Sampler /\ local.pc = "returned")
    /\ [][C26_Progress]_vars

\* a batch filled one of two columns: the loop goes on with the region
\* f < VaR still open
C26_Witness ==
    /\ fn = C23_Sampler
    /\ local.pc = "loop"
    /\ args.nsamples = 2
    /\ local.Icnt = 0 /\ local.Jcnt = 1
    /\ Len(local.Ir) = 1
    /\ C26_Feasible

\* the samples are in ascending order
C27_Ascending(samples) ==
    \A i \in 1..(Len(samples) - 1) : ~RLess(samples[i + 1], samples[i])

\* C27: conditional_value_at_risk called with samples_sorted=True skips the
\* sort, computes CVaR from the samples and weights in the given order and
\* returns a value; on an ascending input that value is the one the call
\* with samples_sorted=False returns.
C27_Claim ==
    (/\ fn = "conditional_value_at_risk"
     /\ args.samples_sorted
     /\ Len(args.samples) >= 2
     /\ RLess(args.alpha, One)) =>
        /\ ret.kind \in {"cvar", "cvar_var"}
        /\ C27_Ascending(args.samples) =>
              ret = conditional_value_at_risk(args.samples, args.alpha,
                                              args.weights, FALSE,
                                              args.return_var)

(* ------- bayesian_inference/markov_chain_monte_carlo.py: GaussianLogLike *)
\* A noise covariance is a Python scalar, or an array with its number of
\* dimensions and its shape: a 1-D array holds a sequence, a 2-D array a
\* sequence of rows.

Scalar(v) == [kind |-> "scalar", s |-> v]
Array1(v) == [kind |-> "array", ndim |-> 1, shape |-> <<Len(v)>>, v1 |-> v]
Array2(rows, cols, v) ==
    [kind |-> "array", ndim |-> 2, shape |-> <<rows, cols>>, v2 |-> v]
\* an array of three dimensions; its entries are never read
Array3(n) == [kind |-> "array", ndim |-> 3, shape |-> <<n, n, n>>]

LinAlgError == [kind |-> "LinAlgError"]

\* np.linalg.inv of a square matrix of order 1 or 2
Inv(m) ==
    IF Len(m) = 1
    THEN IF RIsZero(m[1][1]) THEN LinAlgError
         ELSE Array2(1, 1, <<<<RDiv(One, m[1][1])>>>>)
    ELSE LET det == RSub(RMul(m[1][1], m[2][2]), RMul(m[1][2], m[2][1]))
         IN  IF RIsZero(det) THEN LinAlgError
             ELSE Array2(2, 2,
                         <<<<RDiv(m[2][2], det), RDiv(RNeg(m[1][2]), det)>>,
                           <<RDiv(RNeg(m[2][1]), det), RDiv(m[1][1], det)>>>>)

\* noise_covar.shape==[self.ndata,self.ndata] (line 44): shape is a tuple
\* and a tuple is never equal to a list
ShapeIs(shape, ndata) == FALSE

\* lines 37-46
noise_covariance_inverse(ndata, noise_covar) ==
    IF noise_covar.kind = "scalar" THEN Scalar(RDiv(One, noise_covar.s))
    ELSE IF noise_covar.ndim = 1
    THEN IF noise_covar.shape[1] # ndata THEN AssertionError
         ELSE Array1([i \in 1..Len(noise_covar.v1) |->
                         RDiv(One, noise_covar.v1[i])])
    ELSE IF noise_covar.ndim = 2
    THEN IF ~ShapeIs(noise_covar.shape, ndata) THEN AssertionError
         ELSE Inv(noise_covar.v2)
    \* no branch binds inv_covar
    ELSE UnboundLocalError

\* GaussianLogLike(model, data, noise_covar): the object, or the error of
\* line 35
GaussianLogLike(data, noise_covar) ==
    LET inv_covar == noise_covariance_inverse(Len(data), noise_covar)
    IN  IF inv_covar.kind \notin {"scalar", "array"} THEN inv_covar
        ELSE [kind |-> "GaussianLogLike", data |-> data, ndata |-> Len(data),
              noise_covar_inv |-> inv_covar]

\* the dot product of two vectors
Dot(u, v) == RSum([i \in 1..Len(u) |-> RMul(u[i], v[i])])

\* lines 66-70 for one row of model_vals
Misfit(self, row) ==
    LET residual == [i \in 1..self.ndata |-> RSub(self.data[i], row[i])]
        inv == self.noise_covar_inv
    IN  IF inv.kind = "scalar"
        THEN Dot([i \in 1..self.ndata |-> RMul(residual[i], inv.s)], residual)
        ELSE IF inv.ndim = 1
        THEN Dot([i \in 1..self.ndata |-> RMul(residual[i], inv.v1[i])],
                 residual)
        ELSE Dot([k \in 1..self.ndata |->
                     Dot(residual, [i \in 1..self.ndata |-> inv.v2[i][k]])],
                 residual)

\* GaussianLogLike.__call__ (lines 60-72) on the values model(samples)
LogLikeCall(self, model_vals) ==
    IF \E i \in 1..Len(model_vals) : Len(model_vals[i]) # self.ndata
    THEN AssertionError
    ELSE [kind |-> "vals",
          vals |-> [ii \in 1..Len(model_vals) |->
                       RMul(Rat(-1, 2), Misfit(self, model_vals[ii]))]]

(* --- markov_chain_monte_carlo.py: run_bayesian_inference_gaussian_error_model *)
\* PyMC3 is outside the repository: the trace of a completed sampling run
\* and the dictionary of find_MAP are inputs.  A trace gives, for a
\* variable, a chain and a draw, the value drawn.

None == [kind |-> "None"]
PymcException == [kind |-> "Exception"]

\* get_pymc_variable (lines 183-191) knows two distributions
SupportedVariable(name) == name \in {"norm", "uniform"}

\* trace.get_values(var, burn=nburn, chains=np.arange(njobs)): the draws
\* after the first nburn of every chain, the chains one after the other
GetValues(trace, ii, ndraws, nburn, njobs) ==
    [k \in 1..((ndraws - nburn) * njobs) |->
        trace[ii][((k - 1) \div (ndraws - nburn)) + 1]
                 [nburn + ((k - 1) % (ndraws - nburn)) + 1]]

\* lines 154-163
extract_mcmc_chain_from_pymc3_trace(trace, ess, nvars, ndraws, nburn, njobs) ==
    [samples |-> [ii \in 1..nvars |->
                     GetValues(trace, ii, ndraws, nburn, njobs)],
     effective_sample_size |-> [ii \in 1..nvars |-> ess[ii]]]

\* lines 165-170: a column of nvars entries
extract_map_sample_from_pymc3_dict(map_sample_dict, nvars) ==
    [kind |-> "map", val |-> [ii \in 1..nvars |-> map_sample_dict[ii]]]

\* the name map_sample at the return statement (line 242): the else branch
\* binds map_samples (line 240), so map_sample is bound only under get_map
MapSampleBound(get_map) == get_map

\* the name step at line 227: bound by lines 222-225 for two algorithms
StepBound(algorithm) == algorithm \in {"metropolis", "nuts"}

\* lines 193-242; trace, ess and map_sample_dict are what PyMC3 produced
run_bayesian_inference_gaussian_error_model(variables, ndraws, nburn, njobs, algorithm, get_map, trace, ess, map_sample_dict) ==
    LET nvars == Len(variables)
        chain == extract_mcmc_chain_from_pymc3_trace(
                     trace, ess, nvars, ndraws, nburn, njobs)
    IN  IF \E ii \in 1..nvars : ~SupportedVariable(variables[ii])
        THEN PymcException
        ELSE IF algorithm = "smc" /\ njobs # 1 THEN AssertionError
        ELSE IF algorithm # "smc" /\ ~StepBound(algorithm)
        THEN UnboundLocalError
        ELSE IF ~MapSampleBound(get_map) THEN UnboundLocalError
        ELSE [kind |-> "triple",
              samples |-> chain.samples,
              effective_sample_size |-> chain.effective_sample_size,
              map_sample |-> extract_map_sample_from_pymc3_dict(
                                 map_sample_dict, nvars)]

(* --------------------- calls of markov_chain_monte_carlo.py ------------- *)
MaxData == 2
MaxVars == 2
MaxChain == 2

\* the observations
DataValues == {Zero, One}
DataArrays == UNION {[1..n -> DataValues] : n \in 1..MaxData}
\* variances and covariance matrices, all positive definite
Variances == {One, Int2Rat(2)}
Diagonal(n, v) == [i \in 1..n |-> [k \in 1..n |-> IF i = k THEN v ELSE Zero]]
NoiseCovars ==
    {Scalar(v) : v \in Variances}
    \cup {Array1(w) : w \in UNION {[1..n -> Variances] : n \in 1..MaxData}}
    \cup {Array2(n, n, Diagonal(n, v)) : n \in 1..MaxData, v \in Variances}
    \cup {Array2(2, 2, <<<<Int2Rat(2), One>>, <<One, Int2Rat(2)>>>>)}
    \cup {Array3(n) : n \in 1..MaxData}

CallGaussianLogLike ==
    /\ Idle
    /\ UNCHANGED <<heap, local>>
    /\ \E data \in DataArrays, noise_covar \in NoiseCovars :
        /\ fn' = "GaussianLogLike"
        /\ args' = [data |-> data, noise_covar |-> noise_covar]
        /\ ret' = GaussianLogLike(data, noise_covar)

\* the values of the model at one or two samples
ModelVals ==
    UNION {[1..rows -> [1..n -> DataValues]] : rows \in 1..2, n \in 1..MaxData}

\* a call of the object the constructor returned
CallLogLike ==
    /\ fn = "GaussianLogLike"
    /\ ret.kind = "GaussianLogLike"
    /\ UNCHANGED <<heap, local>>
    /\ \E model_vals \in ModelVals :
        /\ fn' = "GaussianLogLike.__call__"
        /\ args' = [self |-> ret, model_vals |-> model_vals]
        /\ ret' = LogLikeCall(ret, model_vals)

Algorithms == {"nuts", "metropolis", "smc", "hmc"}
VariableNames == {"norm", "uniform", "beta"}
VariableLists == UNION {[1..n -> VariableNames] : n \in 1..MaxVars}
\* the traces PyMC3 may hand back: the value of variable ii at draw d of
\* chain c
Traces(nvars, ndraws, njobs) ==
    {[ii \in 1..nvars |-> [c \in 1..njobs |-> [d \in 1..ndraws |->
          base + (10 * ii) + (3 * c) + d]]] : base \in {0, 1}}

CallRunBayesianInference ==
    /\ Idle
    /\ UNCHANGED <<heap, local>>
    /\ \E variables \in VariableLists, ndraws \in 1..MaxChain,
          njobs \in 1..MaxChain, algorithm \in Algorithms,
          get_map \in BOOLEAN :
        \E nburn \in 0..(ndraws - 1),
           trace \in Traces(Len(variables), ndraws, njobs),
           ess \in [1..Len(variables) -> {1}],
           map_sample_dict \in [1..Len(variables) -> {0, 5}] :
            /\ fn' = "run_bayesian_inference_gaussian_error_model"
            /\ args' = [variables |-> variables, ndraws |-> ndraws,
                        nburn |-> nburn, njobs |-> njobs,
                        algorithm |-> algorithm, get_map |-> get_map,
                        trace |-> trace, ess |-> ess,
                        map_sample_dict |-> map_sample_dict]
            /\ ret' = run_bayesian_inference_gaussian_error_model(
                          variables, ndraws, nburn, njobs, algorithm, get_map,
                          trace, ess, map_sample_dict)

NextInference ==
    \/ CallGaussianLogLike
    \/ CallLogLike
    \/ CallRunBayesianInference

SpecInference == Init /\ [][NextInference]_vars

\* C28: a call with a supported algorithm (and one job under smc) on
\* supported variables returns the triple of the trace's samples, the
\* effective sample sizes and, as third element, None without get_map and the
\* MAP sample with it.
C28_Claim ==
    (/\ fn = "run_bayesian_inference_gaussian_error_model"
     /\ args.algorithm \in {"nuts", "metropolis", "smc"}
     /\ (args.algorithm = "smc" => args.njobs = 1)
     /\ \A ii \in 1..Len(args.variables) :
            SupportedVariable(args.variables[ii]))
    => /\ ret.kind = "triple"
       /\ ret.samples =
              [ii \in 1..Len(args.variables) |->
                  GetValues(args.trace, ii, args.ndraws, args.nburn,
                            args.njobs)]
       /\ ret.map_sample =
              IF args.get_map
              THEN [kind |-> "map",
                    val |-> [ii \in 1..Len(args.variables) |->
                                args.map_sample_dict[ii]]]
              ELSE None

\* C29: the constructor accepts a scalar, a 1-D array of length ndata and a
\* 2-D array of shape (ndata, ndata), storing for the last the matrix
\* inverse; it raises the assertion only for a 1-D or 2-D covariance whose
\* shape does not match the data.
C29_Matches ==
    \/ args.noise_covar.kind = "scalar"
    \/ /\ args.noise_covar.kind = "array"
       /\ \/ args.noise_covar.shape = <<Len(args.data)>>
          \/ args.noise_covar.shape = <<Len(args.data), Len(args.data)>>

C29_Claim ==
    fn = "GaussianLogLike" =>
        /\ C29_Matches => ret.kind = "GaussianLogLike"
        /\ (C29_Matches /\ args.noise_covar.kind = "array"
               /\ args.noise_covar.ndim = 2)
           => ret.noise_covar_inv = Inv(args.noise_covar.v2)
        /\ ret = AssertionError => ~C29_Matches

(* --------- the tables of the discrete providers as divisors ------------ *)

\* the entries evaluate_orthonormal_polynomial_1d (lines 373, 376, 380) and
\* convert_orthonormal_polynomials_to_monomials_1d (lines 526-535) divide
\* by: ab[jj,1] for jj = 0..nmax
Divisors(ab, nmax) == {B(ab, jj) : jj \in 0..nmax}

\* a call of one of the two providers with parameters in their domains
C30_Valid ==
    \/ /\ fn = "krawtchouk_recurrence"
       /\ 1 <= args.Nterms /\ args.Nterms <= args.Ntrials
       /\ RLess(Zero, args.p) /\ RLess(args.p, One)
    \/ /\ fn = "discrete_chebyshev_recurrence"
       /\ 1 <= args.N /\ args.N <= args.Ntrials

\* the beta column before the square root
C30_Before ==
    IF fn = "krawtchouk_recurrence"
    THEN KrawtchoukRows(args.Nterms, args.Ntrials, args.p)
    ELSE ChebyshevRows(args.N, args.Ntrials)

\* C30: the table krawtchouk_recurrence (1 <= Nterms <= Ntrials, 0 < p < 1)
\* or discrete_chebyshev_recurrence (1 <= N <= Ntrials) returns has a
\* strictly positive beta in every row, before the square root in rows
\* 1..N-1 and after it everywhere, with 1 in row 0; so no entry the
\* evaluators divide by, for any nmax < N, is zero or NaN.
C30_PositiveBeta ==
    C30_Valid =>
        /\ ret.kind = "table"
        /\ B(ret.ab, 0) = RootOne
        /\ \A i \in 1..(Len(ret.ab) - 1) :
               /\ RLess(Zero, B(C30_Before, i).q)
               /\ ~B(ret.ab, i).nan
               /\ RLess(Zero, B(ret.ab, i).rad)
        /\ \A nmax \in 0..(Len(ret.ab) - 1) :
               \A d \in Divisors(ret.ab, nmax) :
                   ~d.nan /\ ~RIsZero(d.rad)

\* the last row the table can have, Nterms = Ntrials = 3 with p = 1/2:
\* beta_2 = sqrt(1/4 * 2 * 2)
C30_Witness ==
    /\ fn = "krawtchouk_recurrence"
    /\ args.Nterms = 3 /\ args.Ntrials = 3 /\ args.p = Rat(1, 2)
    /\ ret.kind = "table"
    /\ B(ret.ab, 2) = Root(One, 0)
    /\ B(ret.ab, 1) = Root(Rat(3, 4), 0)
====
